---- MODULE Spec2Model ----
(***************************************************************************)
(* A model of the Cal.com adapter of src/app_c.py (class CalComAPI): the    *)
(* retrying request helper with its GET cache, payload validation, the      *)
(* in-flight booking guard of create_booking, and the v2/v1 fallback paths  *)
(* of the public operations.                                                *)
(*                                                                          *)
(* Python values are tagged records [t, v]; a dict is a function from key   *)
(* strings to values (ks lists the keys in insertion order where the code   *)
(* iterates over the dict), a str is a tuple of text chunks (digits and     *)
(* e-mail addresses are chunked per character, other texts are one chunk).  *)
(* Emoji of the source's message texts are left out of the chunks.          *)
(***************************************************************************)
EXTENDS Integers, Sequences, FiniteSets, TLC

(***************************************************************************)
(* Bounds of the model.                                                     *)
(***************************************************************************)
\* top-level calls made on the adapter in a behaviour
MaxCalls == 2
\* the clock stops advancing here (seconds)
MaxClock == 30

(***************************************************************************)
(* Python values.                                                           *)
(***************************************************************************)
None == [t |-> "None", v |-> <<>>]
PyBool(b) == [t |-> "bool", v |-> b]
PyInt(n) == [t |-> "int", v |-> n]
PyStr(cs) == [t |-> "str", v |-> cs]
PyList(s) == [t |-> "list", v |-> s]
\* a dict literal of the adapter (its key order is not modelled: ks is empty)
PyDict(f) == [t |-> "dict", v |-> f, ks |-> <<>>]
\* a dict with its keys in insertion order, as json() builds them
ODict(ks, f) == [t |-> "dict", v |-> f, ks |-> ks]
EmptyDict == PyDict([k \in {} |-> None])
\* a raised exception, as the outcome of a call
Raise(name) == [t |-> "raise", v |-> <<name>>]
\* a response body that is not JSON: response.json() raises on it
NotJson == [t |-> "notjson", v |-> <<>>]

IsDict(x) == x.t = "dict"
IsList(x) == x.t = "list"
IsStr(x) == x.t = "str"
IsRaise(x) == x.t = "raise"

\* Python truthiness: bool(x)
Truthy(x) ==
    CASE x.t = "None" -> FALSE
      [] x.t = "bool" -> x.v
      [] x.t = "int" -> x.v # 0
      [] x.t = "str" -> x.v # <<>>
      [] x.t = "list" -> x.v # <<>>
      [] x.t = "dict" -> DOMAIN x.v # {}
      [] OTHER -> TRUE

\* Python: a or b
Or(a, b) == IF Truthy(a) THEN a ELSE b

\* Python: k in d
Has(d, k) == k \in DOMAIN d.v
\* Python: d.get(k, default) on a dict d
GetD(d, k, default) == IF k \in DOMAIN d.v THEN d.v[k] ELSE default
\* Python: d.get(k)
Get(d, k) == GetD(d, k, None)

DigitChar(d) ==
    CASE d = 0 -> "0" [] d = 1 -> "1" [] d = 2 -> "2" [] d = 3 -> "3"
      [] d = 4 -> "4" [] d = 5 -> "5" [] d = 6 -> "6" [] d = 7 -> "7"
      [] d = 8 -> "8" [] d = 9 -> "9"

RECURSIVE Digits(_)
Digits(n) == IF n < 10 THEN <<DigitChar(n)>> ELSE Digits(n \div 10) \o <<DigitChar(n % 10)>>

\* Python: str(x), for the values the adapter formats
StrOf(x) ==
    CASE x.t = "str" -> x
      [] x.t = "int" -> PyStr(Digits(x.v))
      [] x.t = "None" -> PyStr(<<"None">>)
      [] x.t = "bool" -> PyStr(<<IF x.v THEN "True" ELSE "False">>)
      [] OTHER -> PyStr(<<"<object>">>)

\* the cross mark (U+274C) and the space that open the handlers' error texts,
\* written in ASCII
CrossMark == "U+274C "

\* Python: repr(x) as str(dict) writes a value: a str in quotes
ReprOf(x) == IF x.t = "str" THEN <<"'">> \o x.v \o <<"'">> ELSE StrOf(x).v

\* Python: sep.join(strs), strs a sequence of str values
RECURSIVE Join(_, _)
Join(sep, strs) ==
    IF strs = <<>> THEN <<>>
    ELSE IF Len(strs) = 1 THEN strs[1].v
    ELSE strs[1].v \o <<sep>> \o Join(sep, Tail(strs))

Range(s) == {s[i] : i \in DOMAIN s}

\* Python: d with d[k] = val
With(d, k, val) ==
    [t |-> "dict",
     v |-> [x \in DOMAIN d.v \cup {k} |-> IF x = k THEN val ELSE d.v[x]],
     ks |-> IF k \in DOMAIN d.v \/ (d.ks = <<>> /\ DOMAIN d.v # {}) THEN d.ks ELSE Append(d.ks, k)]

\* Python: list(d.values()), in insertion order
Values(d) == [i \in DOMAIN d.ks |-> d.v[d.ks[i]]]

(***************************************************************************)
(* validate_booking_payload                                                 *)
(***************************************************************************)
\* the dates of the model, and the days before and after them
Dates == {"2025-03-10", "2025-03-11", "2025-03-12", "2025-03-13"}
NextDay(d) ==
    CASE d = "2025-03-09" -> "2025-03-10"
      [] d = "2025-03-10" -> "2025-03-11"
      [] d = "2025-03-11" -> "2025-03-12"
      [] d = "2025-03-12" -> "2025-03-13"
      [] d = "2025-03-13" -> "2025-03-14"
PrevDay(d) == CHOOSE p \in Dates \cup {"2025-03-09"} : NextDay(p) = d

\* the times of day the model writes after a date and "T"
ClockTexts == {"17:00:00Z", "18:00:00Z", "07:00:00Z", "06:59:59Z",
               "17:00:00.000-07:00", "18:00:00.000-07:00"}

\* the instants the model writes in one chunk: their date and time of day
InstantParts(c) ==
    CASE c = "2025-03-10T17:00:00Z" -> <<"2025-03-10", "17:00:00Z">>
      [] c = "2025-03-10T18:00:00Z" -> <<"2025-03-10", "18:00:00Z">>
      [] c = "2025-03-11T17:00:00Z" -> <<"2025-03-11", "17:00:00Z">>
      [] c = "2025-03-11T18:00:00Z" -> <<"2025-03-11", "18:00:00Z">>
      [] c = "2025-03-12T17:00:00Z" -> <<"2025-03-12", "17:00:00Z">>
      [] c = "2025-03-12T18:00:00Z" -> <<"2025-03-12", "18:00:00Z">>
      [] c = "2025-03-13T17:00:00Z" -> <<"2025-03-13", "17:00:00Z">>
      [] c = "2025-03-13T18:00:00Z" -> <<"2025-03-13", "18:00:00Z">>
      [] c = "2025-03-10T17:00:00.000-07:00" -> <<"2025-03-10", "17:00:00.000-07:00">>
      [] c = "2025-03-10T18:00:00.000-07:00" -> <<"2025-03-10", "18:00:00.000-07:00">>
      [] OTHER -> <<>>

\* the date and the time of day of an ISO text (a date alone has no time of
\* day), or <<>> for a text fromisoformat refuses
IsoParts(cs) ==
    IF Len(cs) = 1 /\ cs[1] \in Dates \cup {"2025-03-14"} THEN <<cs[1]>>
    ELSE IF Len(cs) = 1 THEN InstantParts(cs[1])
    ELSE IF /\ Len(cs) = 3 /\ cs[1] \in Dates \cup {"2025-03-14"}
            /\ cs[2] = "T" /\ cs[3] \in ClockTexts
    THEN <<cs[1], cs[3]>>
    ELSE <<>>

\* datetime.fromisoformat(x.replace("Z", "+00:00")) does not raise
FromIsoFormatOk(x) == IsStr(x) /\ IsoParts(x.v) # <<>>

SupportedTimeZones == {<<"America/Los_Angeles">>, <<"America/New_York">>, <<"UTC">>}

EventTypeIdErrors(payload) ==
    IF ~Truthy(Get(payload, "eventTypeId"))
    THEN <<PyStr(<<"eventTypeId is required">>)>>
    ELSE IF Get(payload, "eventTypeId").t \notin {"int", "bool", "str"}
    THEN <<PyStr(<<"eventTypeId must be a number or string">>)>>
    ELSE <<>>

StartErrors(payload) ==
    IF ~Truthy(Get(payload, "start"))
    THEN <<PyStr(<<"start time is required">>)>>
    ELSE IF ~FromIsoFormatOk(Get(payload, "start"))
    THEN <<PyStr(<<"start time must be in ISO format (YYYY-MM-DDTHH:MM:SSZ)">>)>>
    ELSE <<>>

EmailErrors(attendee) ==
    IF ~Truthy(Get(attendee, "email"))
    THEN <<PyStr(<<"attendee email is required">>)>>
    ELSE IF "@" \notin Range(Get(attendee, "email").v)
    THEN <<PyStr(<<"attendee email must be valid">>)>>
    ELSE <<>>

NameErrors(attendee) ==
    IF ~Truthy(Get(attendee, "name"))
    THEN <<PyStr(<<"attendee name is required">>)>>
    ELSE <<>>

TimeZoneWarnings(attendee) ==
    IF Truthy(Get(attendee, "timeZone")) /\ Get(attendee, "timeZone").v \notin SupportedTimeZones
    THEN <<PyStr(<<"Timezone ">> \o Get(attendee, "timeZone").v
                 \o <<" might not be supported by Cal.com">>)>>
    ELSE <<>>

\* validate_booking_payload(payload): {valid, errors, warnings}
validate_booking_payload(payload) ==
    LET attendee == GetD(payload, "attendee", EmptyDict)
        errors == EventTypeIdErrors(payload) \o StartErrors(payload)
                  \o EmailErrors(attendee) \o NameErrors(attendee)
    IN  PyDict([valid |-> PyBool(Len(errors) = 0),
                errors |-> PyList(errors),
                warnings |-> PyList(TimeZoneWarnings(attendee))])

(***************************************************************************)
(* _make_request_with_retry                                                 *)
(***************************************************************************)
\* seconds a cached GET response is served for
CacheTTL == 30

\* what one requests.request call does: a response, or a transport-level
\* exception (a requests.exceptions.RequestException that is no HTTPError)
Resp(status, body) == [kind |-> "resp", status |-> status, body |-> body]
TransportError == [kind |-> "exc", status |-> 0, body |-> None]

\* the requests.Response of an attempt to url
ResponseOf(o, url) == [status_code |-> o.status, body |-> o.body, url |-> url]

\* self.request_cache[cache_key] = (response, time.time())
CacheStore(cache, cache_key, response, clock) ==
    [k \in DOMAIN cache \cup {cache_key} |->
        IF k = cache_key THEN [response |-> response, timestamp |-> clock] ELSE cache[k]]

\* a cache check that never lets an entry expire
CacheHitAnyAge(method, cache_key, cache, clock) ==
    /\ method = "GET"
    /\ cache_key \in DOMAIN cache
\* the cache check of an attempt: a GET whose key is cached for less than 30 s
CacheHit(method, cache_key, cache, clock) ==
    /\ method = "GET"
    /\ cache_key \in DOMAIN cache
    /\ clock - cache[cache_key].timestamp < CacheTTL

\* a cache that stores the response of every GET
CachedAnyStatus(method, status) == method = "GET"

\* line 203: the response of an attempt is stored in the cache
Cached(method, status) == method = "GET" /\ status < 400

\* a loop that goes on after a 4xx response as it does after a 5xx
EndsBelow400(status, attempt, max_retries) == status < 400 \/ attempt >= max_retries - 1

\* lines 207-216: the response of an attempt is returned (attempts count from 0)
Ends(status, attempt, max_retries) == status < 500 \/ attempt >= max_retries - 1

\* lines 211-212, 220-221: the seconds slept after the attempt (retry_delay
\* is 1.0 in every call), a power of two
RECURSIVE Delay(_)
Delay(attempt) == IF attempt = 0 THEN 1 ELSE 2 * Delay(attempt - 1)

\* lines 200-225 of the pass `attempt`: its requests.request call has met o
\* at time clock.  The pass returns the response, raises, or sleeps for
\* delay seconds before the next pass.
Received(method, url, params, max_retries, o, cache, clock, attempt) ==
    LET cache_key == <<method, url, params>> IN
    IF o.kind = "exc"
    THEN IF attempt < max_retries - 1
         THEN [kind |-> "sleep", exc |-> "", response |-> ResponseOf(o, url),
               cache |-> cache, delay |-> Delay(attempt)]
         ELSE [kind |-> "raise", exc |-> "ConnectionError", response |-> ResponseOf(o, url),
               cache |-> cache, delay |-> 0]
    ELSE LET response == ResponseOf(o, url)
             stored == IF Cached(method, o.status)
                       THEN CacheStore(cache, cache_key, response, clock)
                       ELSE cache
         IN  IF Ends(o.status, attempt, max_retries)
             THEN [kind |-> "return", exc |-> "", response |-> response,
                   cache |-> stored, delay |-> 0]
             ELSE [kind |-> "sleep", exc |-> "", response |-> response,
                   cache |-> stored, delay |-> Delay(attempt)]

(***************************************************************************)
(* What the backend may answer.                                             *)
(***************************************************************************)
\* what one requests.request call meets: a 200 with one of bodies, one of
\* the refusals (responses with a 4xx status), a 500, or a transport error
Final(bodies, refusals) == {Resp(200, b) : b \in bodies} \cup refusals
Again == {TransportError, Resp(500, NotJson)}

\* the refusal of a request whose error body is not read
Refused == {Resp(400, NotJson)}

(***************************************************************************)
(* State.                                                                   *)
(***************************************************************************)
Threads == {1, 2}

VARIABLES
    stack,          \* per thread: the frames of the adapter calls it is in
    returned,       \* per thread: what its last top-level call returned
    calls,          \* top-level calls made on the adapter
    processing,     \* self._processing_bookings
    hasProcessing,  \* hasattr(self, '_processing_bookings')
    request_cache,  \* self.request_cache
    clock,          \* time.time()
    call,           \* per thread: the frame its current top-level call began with
    overlap,        \* per thread: threads that were inside a create_booking
                    \* call with the same key when its current call began
    session_state,  \* st.session_state: messages and manual_event_id
    created         \* per thread: the bookings the backend has created for the
                    \* requests of its current top-level call

vars == <<stack, returned, calls, processing, hasProcessing, request_cache, clock,
          call, overlap, session_state, created>>

\* no top-level call has returned yet
Pending == [t |-> "pending", v |-> <<>>]
\* the frame has made no request yet; the thread has begun no call yet
NoRequest == [kind |-> "none", exc |-> "",
              response |-> [status_code |-> 0, body |-> None, url |-> <<>>]]
NoCall == [op |-> "", pc |-> ""]

Top(t) == stack[t][Len(stack[t])]
AtPc(t, op, pc) == stack[t] # <<>> /\ Top(t).op = op /\ Top(t).pc = pc
SetTop(t, f) == [stack EXCEPT ![t] = [@ EXCEPT ![Len(@)] = f]]
Push(t, caller, f) == [stack EXCEPT ![t] = SubSeq(@, 1, Len(@) - 1) \o <<caller, f>>]

\* the top frame of t returns val (or raises, val a Raise): to the frame
\* below, which finds it in ret, or to the caller of the adapter
ReturnTo(t, val) ==
    IF Len(stack[t]) = 1
    THEN /\ stack' = [stack EXCEPT ![t] = <<>>]
         /\ returned' = [returned EXCEPT ![t] = val]
    ELSE /\ stack' = [stack EXCEPT ![t] =
                SubSeq(@, 1, Len(@) - 2) \o <<[@[Len(@) - 1] EXCEPT !.ret = val]>>]
         /\ UNCHANGED returned


(***************************************************************************)
(* create_booking                                                           *)
(***************************************************************************)
V2 == <<"https://api.cal.com/", "v2">>
V1 == <<"https://api.cal.com/", "v1">>
\* "v2" in response.url
IsV2(url) == "v2" \in Range(url)
ApiVersion(response) == PyStr(<<IF IsV2(response.url) THEN "v2" ELSE "v1">>)

\* max_retries of the booking POSTs
CreateRetries == 3
\* max_retries of the requests of diagnose_slots_issue
DiagnoseRetries == 1

\* f"{event_type_id}:{start_time}:{attendee_email}"
BookingKey(event_type_id, start_time, attendee_email) ==
    StrOf(event_type_id).v \o <<":">> \o StrOf(start_time).v \o <<":">> \o StrOf(attendee_email).v

FrameKey(f) == BookingKey(f.event_type_id, f.start_time, f.attendee_email)

BookingPayload(f) ==
    LET payload == PyDict([eventTypeId |-> f.event_type_id,
                           start |-> f.start_time,
                           attendee |-> PyDict([name |-> f.attendee_name,
                                                email |-> f.attendee_email,
                                                timeZone |-> f.attendee_timezone,
                                                language |-> PyStr(<<"en">>)])])
    IN  IF Truthy(f.meeting_reason)
        THEN With(payload, "metadata", PyDict([reason |-> f.meeting_reason]))
        ELSE payload

DuplicateResult ==
    PyDict([success |-> PyBool(FALSE),
            error |-> PyStr(<<"This booking is already being processed. Please wait...">>),
            duplicate_request |-> PyBool(TRUE)])

ValidationFailure(validation) ==
    PyDict([success |-> PyBool(FALSE),
            error |-> PyStr(<<CrossMark, "Invalid booking payload: ">> \o Join(", ", Get(validation, "errors").v)),
            validation_errors |-> Get(validation, "errors")])

\* response.text, cut to at most n characters
Text(response, n) == PyStr(<<"response.text">>)

\* the message create_booking reads out of the body of a failed response
ParsedErrorMessage(response) ==
    LET error_data == response.body
        top == Or(Get(error_data, "message"),
               Or(Get(error_data, "error"),
               Or(Get(error_data, "errorMessage"), PyStr(<<"Unknown error">>))))
        nested == IF Has(error_data, "data") /\ IsDict(Get(error_data, "data"))
                  THEN Or(Get(Get(error_data, "data"), "message"),
                       Or(Get(Get(error_data, "data"), "error"),
                          Get(Get(error_data, "data"), "errorMessage")))
                  ELSE None
        listed == Has(error_data, "errors") /\ IsList(Get(error_data, "errors"))
    IN  IF error_data = NotJson THEN Text(response, 500)
        ELSE IF ~IsDict(error_data) THEN PyStr(<<"Unknown error">>)
        ELSE IF listed
        THEN PyStr(<<"Validation errors: ">>
                   \o Join(", ", [i \in DOMAIN Get(error_data, "errors").v |->
                                     StrOf(Get(error_data, "errors").v[i])]))
        ELSE IF Truthy(nested) THEN nested
        ELSE top

\* an error message that keeps what the body says when the body says something
ErrorMessageBodyFirst(response) ==
    IF ParsedErrorMessage(response) # PyStr(<<"Unknown error">>)
    THEN ParsedErrorMessage(response)
    ELSE CASE response.status_code = 409 ->
                 PyStr(<<"Time slot is no longer available. Please try a different time.">>)
           [] response.status_code = 422 ->
                 PyStr(<<"Invalid booking data. Please check your meeting details.">>)
           [] response.status_code = 429 ->
                 PyStr(<<"Too many requests. Please wait a moment and try again.">>)
           [] response.status_code >= 500 ->
                 PyStr(<<"Cal.com server error. Please try again in a few minutes.">>)
           [] OTHER -> ParsedErrorMessage(response)

ErrorMessage(response) ==
    CASE response.status_code = 409 ->
            PyStr(<<"Time slot is no longer available. Please try a different time.">>)
      [] response.status_code = 422 ->
            PyStr(<<"Invalid booking data. Please check your meeting details.">>)
      [] response.status_code = 429 ->
            PyStr(<<"Too many requests. Please wait a moment and try again.">>)
      [] response.status_code >= 500 ->
            PyStr(<<"Cal.com server error. Please try again in a few minutes.">>)
      [] OTHER -> ParsedErrorMessage(response)

\* the result for a final response with status >= 400
HttpFailure(response, payload) ==
    PyDict([success |-> PyBool(FALSE),
            error |-> PyStr(<<"Booking failed: ">> \o ErrorMessage(response).v),
            error_details |-> PyDict([status_code |-> PyInt(response.status_code),
                                      response_text |-> Text(response, 0),
                                      request_payload |-> payload,
                                      api_version |-> ApiVersion(response)]),
            status_code |-> PyInt(response.status_code),
            retry_suggested |-> PyBool(response.status_code >= 500)])

\* the result of the handler of requests.exceptions.RequestException
\* (e.response is None for the exceptions raised here)
RequestExceptionFailure(exc) ==
    PyDict([success |-> PyBool(FALSE),
            error |-> PyStr(<<CrossMark, "Failed to create booking: ", exc>>),
            error_details |-> EmptyDict])

CreatedResult(booking_data, response) ==
    PyDict([success |-> PyBool(TRUE),
            data |-> booking_data,
            booking_id |-> Get(booking_data, "id"),
            booking_uid |-> Get(booking_data, "uid"),
            api_version |-> ApiVersion(response)])

\* what create_booking returns for a final response below 400 whose body
\* parsed as JSON: lines 817-841
ParsedCreateResult(result, response) ==
    IF ~IsDict(result)
    THEN \* result.get raises AttributeError, caught at line 834
         PyDict([success |-> PyBool(FALSE),
                 error |-> PyStr(<<"object has no attribute 'get'">>)])
    ELSE IF ~Truthy(GetD(result, "data", EmptyDict))
    THEN CreatedResult(result, response)
    ELSE \* the return is inside the if: the function ends without a return
         None

\* bodies the backend answers a booking POST with
CreatedBooking == ODict(<<"id", "uid">>, [id |-> PyInt(7), uid |-> PyStr(<<"u7">>)])
CreateBodies ==
    {CreatedBooking,
     ODict(<<"status", "data">>, [status |-> PyStr(<<"success">>), data |-> CreatedBooking]),
     ODict(<<"status", "data">>, [status |-> PyStr(<<"success">>), data |-> EmptyDict]),
     PyList(<<CreatedBooking>>),
     NotJson}

\* what the backend refuses a booking POST with
CreateRefused ==
    {Resp(400, NotJson),
     Resp(400, ODict(<<"message">>, [message |-> PyStr(<<"no availability">>)])),
     Resp(400, ODict(<<"errors">>, [errors |-> PyList(<<PyStr(<<"bad start">>)>>)])),
     Resp(409, NotJson)}

\* bodies the backend answers an event-types GET with
Interview == ODict(<<"id", "title", "slug">>,
                   [id |-> PyInt(5), title |-> PyStr(<<"Interview">>), slug |-> PyStr(<<"interview">>)])
InterviewPrep ==
    ODict(<<"id", "title", "slug">>,
          [id |-> PyInt(6), title |-> PyStr(<<"Interview", " ", "Prep">>),
           slug |-> PyStr(<<"interview", "-", "prep">>)])
EventTypeBodies ==
    {PyList(<<Interview>>),
     PyList(<<Interview, InterviewPrep>>),
     PyList(<<InterviewPrep, Interview>>),
     ODict(<<"status", "data">>, [status |-> PyStr(<<"success">>), data |-> PyList(<<Interview>>)]),
     ODict(<<"status", "data">>,
           [status |-> PyStr(<<"success">>),
            data |-> ODict(<<"eventTypes">>, [eventTypes |-> PyList(<<Interview>>)])]),
     PyList(<<>>),
     PyList(<<PyStr(<<"x">>)>>),
     NotJson}

\* bodies the backend answers a slots GET with
SlotA == PyStr(<<"2025-03-10T17:00:00.000-07:00">>)
SlotB == PyStr(<<"2025-03-10T18:00:00.000-07:00">>)
SlotBodies ==
    {ODict(<<"status", "data">>,
           [status |-> PyStr(<<"success">>),
            data |-> ODict(<<"2025-03-10">>,
                           "2025-03-10" :> PyList(<<ODict(<<"start">>, [start |-> SlotA]),
                                                    ODict(<<"start">>, [start |-> SlotB])>>))]),
     ODict(<<"slots">>,
           [slots |-> ODict(<<"2025-03-10">>,
                            "2025-03-10" :> PyList(<<ODict(<<"time">>, [time |-> SlotA]),
                                                     ODict(<<"time">>, [time |-> SlotB])>>))]),
     ODict(<<"status", "data">>, [status |-> PyStr(<<"success">>), data |-> EmptyDict]),
     PyList(<<PyStr(<<"x">>)>>),
     NotJson}

\* bodies the backend answers a bookings GET with
AnnAttendee == ODict(<<"email", "name">>,
                     [email |-> PyStr(<<"a", "@", "x">>), name |-> PyStr(<<"A", "n", "n">>)])
Booking11 == ODict(<<"id", "uid", "eventTypeId", "start", "attendees">>,
                   [id |-> PyInt(11), uid |-> PyStr(<<"u11">>), eventTypeId |-> PyInt(5),
                    start |-> PyStr(<<"2025-03-10T17:00:00Z">>),
                    attendees |-> PyList(<<AnnAttendee>>)])
\* a booking the backend reports without its event type
Booking12 == ODict(<<"id", "uid", "attendees">>,
                   [id |-> PyInt(12), uid |-> PyStr(<<"u12">>),
                    attendees |-> PyList(<<AnnAttendee>>)])
\* a booking the backend reports without attendees
Booking13 == ODict(<<"id", "uid", "eventTypeId", "attendees">>,
                   [id |-> PyInt(13), uid |-> PyStr(<<"u13">>), eventTypeId |-> PyInt(5),
                    attendees |-> PyList(<<>>)])
BookingsBodies ==
    {PyList(<<Booking11, Booking12>>),
     ODict(<<"status", "data">>,
           [status |-> PyStr(<<"success">>), data |-> PyList(<<Booking13, Booking11>>)]),
     PyList(<<>>),
     PyList(<<PyStr(<<"x">>)>>),
     NotJson}

\* bodies the backend answers the GET of one booking with
FetchBodies ==
    {ODict(<<"status", "data">>,
           [status |-> PyStr(<<"success">>),
            data |-> ODict(<<"id", "uid">>, [id |-> PyInt(11), uid |-> PyStr(<<"u11">>)])]),
     NotJson}

\* bodies the backend answers a cancel or reschedule request with
CancelBodies ==
    {ODict(<<"status", "data">>,
           [status |-> PyStr(<<"success">>),
            data |-> ODict(<<"uid">>, [uid |-> PyStr(<<"u11">>)])]),
     PyList(<<>>),
     NotJson}

\* arguments the callers pass to create_booking:
\* event_type_id, start_time, attendee_email, attendee_name
Ann == PyStr(<<"A", "n", "n">>)
AnnEmail == PyStr(<<"a", "@", "x">>)
NoAtEmail == PyStr(<<"a", "x">>)
Iso1 == PyStr(<<"2025-03-10T17:00:00Z">>)
Iso2 == PyStr(<<"2025-03-11T18:00:00Z">>)
CreateArgs ==
    {<<PyInt(5), Iso1, AnnEmail, Ann>>,
     <<PyInt(5), Iso2, AnnEmail, Ann>>,
     <<PyInt(5), Iso1, NoAtEmail, Ann>>,
     <<None, PyStr(<<"tomorrow">>), PyStr(<<>>), None>>}

\* the top frame of t goes on to release its key (lines 840 and 857) before
\* it returns result
ReleaseThenReturn(t, result) ==
    /\ stack' = SetTop(t, [Top(t) EXCEPT !.pc = "release", !.result = result])
    /\ UNCHANGED returned

\* lines 754-841: what create_booking does with the final response
CreateBooking_Finish(t, f, response) ==
    IF response.status_code >= 400
    THEN ReturnTo(t, HttpFailure(response, BookingPayload(f)))
    ELSE IF response.body = NotJson
    THEN \* response.json() raises a RequestException: handler of line 843
         ReleaseThenReturn(t, RequestExceptionFailure("JSONDecodeError"))
    ELSE \* the finally of line 838
         ReleaseThenReturn(t, ParsedCreateResult(response.body, response))

\* lines 667-678: the duplicate check
CreateBooking_Check(t) ==
    /\ AtPc(t, "create_booking", "check")
    /\ IF hasProcessing
       THEN IF FrameKey(Top(t)) \in processing
            THEN ReturnTo(t, DuplicateResult)
            ELSE /\ stack' = SetTop(t, [Top(t) EXCEPT !.pc = "add"])
                 /\ UNCHANGED returned
       ELSE /\ stack' = SetTop(t, [Top(t) EXCEPT !.pc = "init"])
            /\ UNCHANGED returned
    /\ UNCHANGED <<session_state, calls, processing, hasProcessing, request_cache, clock, call, overlap, created>>

\* line 678: self._processing_bookings = set()
CreateBooking_Init(t) ==
    /\ AtPc(t, "create_booking", "init")
    /\ processing' = {}
    /\ hasProcessing' = TRUE
    /\ stack' = SetTop(t, [Top(t) EXCEPT !.pc = "add"])
    /\ UNCHANGED <<session_state, returned, calls, request_cache, clock, call, overlap, created>>

\* line 681: self._processing_bookings.add(booking_key)
CreateBooking_Add(t) ==
    /\ AtPc(t, "create_booking", "add")
    /\ processing' = processing \cup {FrameKey(Top(t))}
    /\ stack' = SetTop(t, [Top(t) EXCEPT !.pc = "validate"])
    /\ UNCHANGED <<session_state, returned, calls, hasProcessing, request_cache, clock, call, overlap, created>>

\* lines 683-711: the payload is built and validated
CreateBooking_Validate(t) ==
    /\ AtPc(t, "create_booking", "validate")
    /\ LET validation == validate_booking_payload(BookingPayload(Top(t))) IN
       IF ~Get(validation, "valid").v
       THEN ReturnTo(t, ValidationFailure(validation))
       ELSE /\ stack' = SetTop(t, [Top(t) EXCEPT !.pc = "v2"])
            /\ UNCHANGED returned
    /\ UNCHANGED <<session_state, calls, processing, hasProcessing, request_cache, clock, call, overlap, created>>

\* lines 717-738: POST /v2/bookings; a status >= 400 or an exception leads
\* to the v1 request
CreateBooking_V2(t) ==
    /\ AtPc(t, "create_booking", "v2_response")
    /\ LET f == Top(t)
           r == f.r
       IN  IF r.kind = "raise" \/ r.response.status_code >= 400
           THEN /\ stack' = SetTop(t, [Top(t) EXCEPT !.pc = "v1"])
                /\ UNCHANGED returned
           ELSE CreateBooking_Finish(t, Top(t), r.response)
    /\ UNCHANGED <<session_state, calls, processing, hasProcessing, request_cache, clock, call,
                   overlap, created>>

\* lines 739-752: POST /v1/bookings; an exception reaches the handler of
\* line 843, which releases the key
CreateBooking_V1(t) ==
    /\ AtPc(t, "create_booking", "v1_response")
    /\ LET f == Top(t)
           r == f.r
       IN  IF r.kind = "raise"
           THEN ReleaseThenReturn(t, RequestExceptionFailure(r.exc))
           ELSE CreateBooking_Finish(t, Top(t), r.response)
    /\ UNCHANGED <<session_state, calls, processing, hasProcessing, request_cache, clock, call,
                   overlap, created>>

\* lines 840 and 857: the test booking_key in self._processing_bookings;
\* the frame returns its result if the key is not in the set
CreateBooking_Release(t) ==
    /\ AtPc(t, "create_booking", "release")
    /\ IF hasProcessing /\ FrameKey(Top(t)) \in processing
       THEN /\ stack' = SetTop(t, [Top(t) EXCEPT !.pc = "remove"])
            /\ UNCHANGED returned
       ELSE ReturnTo(t, Top(t).result)
    /\ UNCHANGED <<session_state, calls, processing, hasProcessing, request_cache, clock, call,
                   overlap, created>>

\* lines 841 and 858: self._processing_bookings.remove(booking_key), which
\* raises KeyError if another thread has removed the key since the test;
\* the KeyError leaves create_booking in place of the result
CreateBooking_Remove(t) ==
    /\ AtPc(t, "create_booking", "remove")
    /\ IF FrameKey(Top(t)) \in processing
       THEN /\ processing' = processing \ {FrameKey(Top(t))}
            /\ ReturnTo(t, Top(t).result)
       ELSE /\ UNCHANGED processing
            /\ ReturnTo(t, Raise("KeyError"))
    /\ UNCHANGED <<session_state, calls, hasProcessing, request_cache, clock, call, overlap, created>>

CreateBookingFrame(event_type_id, start_time, attendee_email, attendee_name, meeting_reason) ==
    [op |-> "create_booking", pc |-> "check",
     event_type_id |-> event_type_id, start_time |-> start_time,
     attendee_email |-> attendee_email, attendee_name |-> attendee_name,
     attendee_timezone |-> PyStr(<<"America/Los_Angeles">>),
     meeting_reason |-> meeting_reason, ret |-> None, r |-> NoRequest, result |-> None]

\* threads inside a create_booking call with the key of frame f
InFlightWith(f, t) ==
    {u \in Threads \ {t} : /\ stack[u] # <<>>
                           /\ stack[u][1].op = "create_booking"
                           /\ FrameKey(stack[u][1]) = FrameKey(f)}

\* a caller of the adapter calls create_booking
Call_create_booking(t) ==
    /\ stack[t] = <<>>
    /\ calls < MaxCalls
    /\ \E a \in CreateArgs :
         LET f == CreateBookingFrame(a[1], a[2], a[3], a[4], PyStr(<<>>)) IN
         /\ stack' = [stack EXCEPT ![t] = <<f>>]
         /\ call' = [call EXCEPT ![t] = f]
         /\ overlap' = [overlap EXCEPT ![t] = InFlightWith(f, t)]
    /\ calls' = calls + 1
    /\ returned' = [returned EXCEPT ![t] = Pending]
    /\ created' = [created EXCEPT ![t] = 0]
    /\ UNCHANGED <<session_state, processing, hasProcessing, request_cache, clock>>

(***************************************************************************)
(* get_event_types                                                          *)
(***************************************************************************)
\* max_retries of every request but the booking POSTs
ReadRetries == 2

\* the first of keys that inner holds a list under, or []
RECURSIVE FirstListUnder(_, _)
FirstListUnder(inner, keys) ==
    IF keys = <<>> THEN PyList(<<>>)
    ELSE IF Has(inner, Head(keys)) /\ IsList(Get(inner, Head(keys)))
    THEN Get(inner, Head(keys))
    ELSE FirstListUnder(inner, Tail(keys))

\* the first value of vals that is a non-empty list starting with a dict, or []
RECURSIVE FirstListOfDicts(_)
FirstListOfDicts(vals) ==
    IF vals = <<>> THEN PyList(<<>>)
    ELSE IF IsList(Head(vals)) /\ Head(vals).v # <<>> /\ IsDict(Head(vals).v[1])
    THEN Head(vals)
    ELSE FirstListOfDicts(Tail(vals))

\* lines 335-362: the event types of a parsed body
ParseEventTypes(data) ==
    LET s1 == IF IsDict(data) /\ Has(data, "data")
              THEN IF IsList(Get(data, "data")) THEN Get(data, "data")
                   ELSE IF IsDict(Get(data, "data"))
                   THEN FirstListUnder(Get(data, "data"), <<"event_types", "eventTypes", "items">>)
                   ELSE PyList(<<>>)
              ELSE PyList(<<>>)
        s2 == IF ~Truthy(s1) /\ IsDict(data) /\ Has(data, "event_types")
              THEN IF IsList(Get(data, "event_types")) THEN Get(data, "event_types") ELSE PyList(<<>>)
              ELSE s1
        s3 == IF ~Truthy(s2) /\ IsDict(data) /\ Has(data, "eventTypes")
              THEN IF IsList(Get(data, "eventTypes")) THEN Get(data, "eventTypes") ELSE PyList(<<>>)
              ELSE s2
        s4 == IF ~Truthy(s3) /\ IsList(data) THEN data ELSE s3
    IN  IF ~Truthy(s4) /\ IsDict(data) THEN FirstListOfDicts(Values(data)) ELSE s4

\* lines 364-375: the sidebar loop calls et.get on the first three entries
EventTypesResult(event_types, response) ==
    IF \E i \in DOMAIN event_types.v : i <= 3 /\ ~IsDict(event_types.v[i])
    THEN Raise("AttributeError")
    ELSE PyDict([success |-> PyBool(TRUE),
                 event_types |-> event_types,
                 api_version |-> ApiVersion(response)])

EventTypesHttpFailure(response) ==
    PyDict([success |-> PyBool(FALSE),
            error |-> PyStr(<<"Failed to fetch event types: ">> \o Text(response, 0).v),
            error_details |-> PyDict([status_code |-> PyInt(response.status_code),
                                      response_text |-> Text(response, 0),
                                      api_version |-> ApiVersion(response)]),
            event_types |-> PyList(<<>>)])

EventTypesExceptionFailure(exc) ==
    PyDict([success |-> PyBool(FALSE),
            error |-> PyStr(<<CrossMark, "Failed to fetch event types: ", exc>>),
            error_details |-> EmptyDict,
            event_types |-> PyList(<<>>)])

\* lines 309-375: what get_event_types returns for the final response
EventTypesOutcome(response) ==
    IF response.status_code >= 400 THEN EventTypesHttpFailure(response)
    ELSE IF response.body = NotJson THEN EventTypesExceptionFailure("JSONDecodeError")
    ELSE EventTypesResult(ParseEventTypes(response.body), response)

\* lines 278-298: GET /v2/event-types
GetEventTypes_V2(t) ==
    /\ AtPc(t, "get_event_types", "v2_response")
    /\ LET f == Top(t)
           r == f.r
       IN  IF r.kind = "raise" \/ r.response.status_code >= 400
           THEN /\ stack' = SetTop(t, [Top(t) EXCEPT !.pc = "v1"])
                /\ UNCHANGED returned
           ELSE ReturnTo(t, EventTypesOutcome(r.response))
    /\ UNCHANGED <<session_state, calls, processing, hasProcessing, request_cache, clock, call, overlap, created>>

\* lines 298-307: GET /v1/event-types
GetEventTypes_V1(t) ==
    /\ AtPc(t, "get_event_types", "v1_response")
    /\ LET f == Top(t)
           r == f.r
       IN  IF r.kind = "raise"
           THEN ReturnTo(t, EventTypesExceptionFailure(r.exc))
           ELSE ReturnTo(t, EventTypesOutcome(r.response))
    /\ UNCHANGED <<session_state, calls, processing, hasProcessing, request_cache, clock, call, overlap, created>>

GetEventTypesFrame == [op |-> "get_event_types", pc |-> "v2", ret |-> None, r |-> NoRequest]

(***************************************************************************)
(* get_available_slots                                                      *)
(***************************************************************************)
\* the texts of length 10 with two '-'
SimpleDates == {<<d>> : d \in Dates \cup {"2025-03-14"}}

\* the text of a chunk before its first 'T' (the chunk itself if it holds none)
ChunkBeforeT(c) ==
    IF InstantParts(c) # <<>> THEN InstantParts(c)[1]
    ELSE IF c = "T" THEN ""
    ELSE c

\* Python: 'T' in c
HoldsT(c) == ChunkBeforeT(c) # c

\* the chunks of cs before its first 'T': date_str.split('T')[0]
RECURSIVE BeforeT(_)
BeforeT(cs) ==
    IF cs = <<>> \/ Head(cs) = "T" THEN <<>>
    ELSE IF HoldsT(Head(cs)) THEN <<ChunkBeforeT(Head(cs))>>
    ELSE <<Head(cs)>> \o BeforeT(Tail(cs))

\* lines 414-425 (len() of a value that is no str raises: caught, returned as is)
normalize_date(date_str) ==
    IF ~IsStr(date_str) THEN date_str
    ELSE IF date_str.v \in SimpleDates THEN date_str
    ELSE IF \E i \in DOMAIN date_str.v : HoldsT(date_str.v[i]) THEN PyStr(BeforeT(date_str.v))
    ELSE date_str

\* Python: d.get(keys[1]) or d.get(keys[2]) or ...
RECURSIVE OrKeys(_, _)
OrKeys(d, keys) ==
    IF Len(keys) = 1 THEN Get(d, keys[1]) ELSE Or(Get(d, Head(keys)), OrKeys(d, Tail(keys)))

\* the instants of one date's list: lines 550-557 (keys "start", "time")
\* and 584-591 (key "time")
RECURSIVE SlotsOfList(_, _)
SlotsOfList(items, keys) ==
    IF items = <<>> THEN <<>>
    ELSE LET slot == Head(items)
             here == IF IsDict(slot)
                     THEN IF Truthy(OrKeys(slot, keys)) /\ IsStr(OrKeys(slot, keys))
                          THEN <<OrKeys(slot, keys)>> ELSE <<>>
                     ELSE IF IsStr(slot) THEN <<slot>> ELSE <<>>
         IN  here \o SlotsOfList(Tail(items), keys)

\* the instants under the date keys, in the order of the keys
RECURSIVE SlotsOfDates(_, _)
SlotsOfDates(vals, keys) ==
    IF vals = <<>> THEN <<>>
    ELSE (IF IsList(Head(vals)) THEN SlotsOfList(Head(vals).v, keys) ELSE <<>>)
         \o SlotsOfDates(Tail(vals), keys)

\* the str values obj holds under keys, in the order of keys
RECURSIVE StrsUnder(_, _)
StrsUnder(obj, keys) ==
    IF keys = <<>> THEN <<>>
    ELSE (IF Has(obj, Head(keys)) /\ IsStr(Get(obj, Head(keys))) THEN <<Get(obj, Head(keys))>> ELSE <<>>)
         \o StrsUnder(obj, Tail(keys))

\* walk_v2 (keys start, time, startTime) and walk_v1 (keys time, start, startTime)
RECURSIVE Walk(_, _), WalkAll(_, _)
Walk(obj, keys) ==
    IF IsDict(obj) THEN StrsUnder(obj, keys) \o WalkAll(Values(obj), keys)
    ELSE IF IsList(obj) THEN WalkAll(obj.v, keys)
    ELSE <<>>
WalkAll(objs, keys) ==
    IF objs = <<>> THEN <<>> ELSE Walk(Head(objs), keys) \o WalkAll(Tail(objs), keys)

\* list(dict.fromkeys(slots))
RECURSIVE Dedupe(_)
Dedupe(xs) ==
    IF xs = <<>> THEN <<>>
    ELSE LET front == Dedupe(SubSeq(xs, 1, Len(xs) - 1))
         IN  IF xs[Len(xs)] \in Range(front) THEN front ELSE Append(front, xs[Len(xs)])

\* lines 539-572
ParseSlotsV2(data) ==
    IF IsDict(data) /\ Get(data, "status") = PyStr(<<"success">>)
    THEN IF IsDict(GetD(data, "data", EmptyDict))
         THEN SlotsOfDates(Values(GetD(data, "data", EmptyDict)), <<"start", "time">>)
         ELSE <<>>
    ELSE Walk(data, <<"start", "time", "startTime">>)

\* a v1 parse that reads the instants under "start", as the v2 parse does
ParseSlotsV1StartKey(data) ==
    IF IsDict(data) /\ Has(data, "slots")
    THEN IF IsDict(Get(data, "slots"))
         THEN SlotsOfDates(Values(Get(data, "slots")), <<"start">>)
         ELSE <<>>
    ELSE Walk(data, <<"time", "start", "startTime">>)

\* lines 573-606
ParseSlotsV1(data) ==
    IF IsDict(data) /\ Has(data, "slots")
    THEN IF IsDict(Get(data, "slots"))
         THEN SlotsOfDates(Values(Get(data, "slots")), <<"time">>)
         ELSE <<>>
    ELSE Walk(data, <<"time", "start", "startTime">>)

SlotsHttpFailure(response, f) ==
    PyDict([success |-> PyBool(FALSE),
            error |-> PyStr(<<"Failed to fetch slots: ">> \o Text(response, 0).v),
            error_details |-> PyDict([status_code |-> PyInt(response.status_code),
                                      response_text |-> Text(response, 0),
                                      event_type_id |-> f.event_type_id,
                                      date_range |-> PyStr(StrOf(f.start_date).v \o <<" to ">>
                                                           \o StrOf(f.end_date).v),
                                      api_version |-> ApiVersion(response)]),
            slots |-> PyList(<<>>),
            suggestion |-> PyStr(<<"Check that your Cal.com event type has availability configured and the date is within your availability window">>)])

SlotsExceptionFailure(exc) ==
    PyDict([success |-> PyBool(FALSE),
            error |-> PyStr(<<exc>>),
            error_details |-> EmptyDict,
            slots |-> PyList(<<>>),
            suggestion |-> PyStr(<<"Make sure your Cal.com event type has availability hours set up and the date is within your availability window">>)])

\* a get_available_slots that reports a 2xx answer without slots as a failure
SlotsOutcomeNoSlotsFails(response, f) ==
    IF response.status_code >= 400 THEN SlotsHttpFailure(response, f)
    ELSE IF response.body = NotJson THEN SlotsExceptionFailure("JSONDecodeError")
    ELSE LET slots == Dedupe(IF IsV2(response.url) THEN ParseSlotsV2(response.body)
                             ELSE ParseSlotsV1(response.body))
         IN  IF slots = <<>> THEN SlotsExceptionFailure("No slots found")
             ELSE PyDict([success |-> PyBool(TRUE),
                          slots |-> PyList(slots),
                          count |-> PyInt(Len(slots)),
                          event_type_id |-> f.event_type_id,
                          api_version |-> ApiVersion(response)])

\* lines 505-628: what get_available_slots returns for the final response
SlotsOutcome(response, f) ==
    IF response.status_code >= 400 THEN SlotsHttpFailure(response, f)
    ELSE IF response.body = NotJson THEN SlotsExceptionFailure("JSONDecodeError")
    ELSE LET slots == Dedupe(IF IsV2(response.url) THEN ParseSlotsV2(response.body)
                             ELSE ParseSlotsV1(response.body))
         IN  PyDict([success |-> PyBool(TRUE),
                     slots |-> PyList(slots),
                     count |-> PyInt(Len(slots)),
                     event_type_id |-> f.event_type_id,
                     api_version |-> ApiVersion(response)])

\* str(params) of the slots requests: the values as repr() writes them, under
\* start and end for v2, under apiKey, startTime and endTime for v1
SlotsParams(f, start, end, v2) ==
    (IF v2 THEN <<>> ELSE <<"apiKey=">>)
    \o <<"eventTypeId=">> \o ReprOf(f.event_type_id)
    \o <<IF v2 THEN "start=" ELSE "startTime=">> \o ReprOf(start)
    \o <<IF v2 THEN "end=" ELSE "endTime=">> \o ReprOf(end)
    \o <<"timeZone=", "'", "America/Los_Angeles", "'">>

\* lines 428-482: GET /v2/slots with the normalized dates; a status >= 400
\* raises HTTPError inside the try, whose handler goes on to v1
GetAvailableSlots_V2(t) ==
    /\ AtPc(t, "get_available_slots", "v2_response")
    /\ LET f == Top(t)
           r == f.r
       IN  IF r.kind = "raise" \/ r.response.status_code >= 400
           THEN /\ stack' = SetTop(t, [f EXCEPT !.pc = "v1"])
                /\ UNCHANGED returned
           ELSE ReturnTo(t, SlotsOutcome(r.response, f))
    /\ UNCHANGED <<session_state, calls, processing, hasProcessing, request_cache, clock, call, overlap, created>>

\* lines 482-503: GET /v1/slots with the dates as given
GetAvailableSlots_V1(t) ==
    /\ AtPc(t, "get_available_slots", "v1_response")
    /\ LET f == Top(t)
           r == f.r
       IN  IF r.kind = "raise"
           THEN ReturnTo(t, SlotsExceptionFailure(r.exc))
           ELSE ReturnTo(t, SlotsOutcome(r.response, f))
    /\ UNCHANGED <<session_state, calls, processing, hasProcessing, request_cache, clock, call, overlap, created>>

GetAvailableSlotsFrame(event_type_id, start_date, end_date) ==
    [op |-> "get_available_slots", pc |-> "v2", event_type_id |-> event_type_id,
     start_date |-> start_date, end_date |-> end_date, ret |-> None, r |-> NoRequest]

(***************************************************************************)
(* get_bookings                                                             *)
(***************************************************************************)
\* str.lower() on the characters the model's texts use
LowerChar(c) ==
    CASE c = "A" -> "a" [] c = "B" -> "b" [] c = "N" -> "n" [] c = "X" -> "x"
      [] c = "R" -> "r" [] c = "T" -> "t"
      [] c = "Interview" -> "interview" [] c = "Prep" -> "prep" [] c = "Misc" -> "misc"
      [] c = "None" -> "none" [] c = "True" -> "true" [] c = "False" -> "false"
      [] c = "N/A" -> "n/a" [] OTHER -> c
Lower(x) == PyStr([i \in DOMAIN x.v |-> LowerChar(x.v[i])])

\* Python: q in s, on the chunks of two str values
IsInfix(q, s) ==
    \E i \in 0..(Len(s.v) - Len(q.v)) : SubSeq(s.v, i + 1, i + Len(q.v)) = q.v

\* lines 902-918: the bookings of a parsed body
ParseBookings(raw) ==
    IF IsList(raw) THEN raw
    ELSE IF ~IsDict(raw) THEN PyList(<<>>)
    ELSE IF IsList(Get(raw, "data")) THEN Get(raw, "data")
    ELSE IF IsDict(Get(raw, "data")) /\ IsList(Get(Get(raw, "data"), "bookings"))
    THEN Get(Get(raw, "data"), "bookings")
    ELSE IF IsList(Get(raw, "bookings")) THEN Get(raw, "bookings")
    ELSE FirstListOfDicts(Values(raw))

\* b.get("attendees") or b.get("attendee") or [], a dict wrapped in a list
AttendeesOf(b) ==
    LET possible == Or(Get(b, "attendees"), Or(Get(b, "attendee"), PyList(<<>>)))
    IN  IF IsDict(possible) THEN <<possible>> ELSE possible.v

\* one attendee of a booking satisfies the loop body of lines 927-935
AttendeeMatches(a, attendee_email, attendee_name) ==
    \/ /\ Truthy(attendee_email)
       /\ Lower(StrOf(GetD(a, "email", PyStr(<<>>)))) = Lower(attendee_email)
    \/ /\ Truthy(attendee_name)
       /\ IsInfix(Lower(attendee_name), Lower(StrOf(GetD(a, "name", PyStr(<<>>)))))

\* lines 921-936
booking_matches_attendee(b, attendee_email, attendee_name) ==
    IF ~Truthy(attendee_email) /\ ~Truthy(attendee_name) THEN TRUE
    ELSE \E i \in DOMAIN AttendeesOf(b) :
            /\ IsDict(AttendeesOf(b)[i])
            /\ AttendeeMatches(AttendeesOf(b)[i], attendee_email, attendee_name)

\* the loop of lines 927-935 calls .get on an attendee that is no dict
\* before it finds a match
FilterRaises(b, attendee_email, attendee_name) ==
    /\ Truthy(attendee_email) \/ Truthy(attendee_name)
    /\ \E j \in DOMAIN AttendeesOf(b) :
          /\ ~IsDict(AttendeesOf(b)[j])
          /\ \A i \in 1..(j - 1) :
                ~(/\ IsDict(AttendeesOf(b)[i])
                  /\ AttendeeMatches(AttendeesOf(b)[i], attendee_email, attendee_name))

\* the loop of lines 1013-1016 does, before it finds the filter's e-mail
EnrichRaises(b, attendee_email) ==
    /\ Truthy(attendee_email)
    /\ \E j \in DOMAIN AttendeesOf(b) :
          /\ ~IsDict(AttendeesOf(b)[j])
          /\ \A i \in 1..(j - 1) :
                ~(/\ IsDict(AttendeesOf(b)[i])
                  /\ AttendeeMatches(AttendeesOf(b)[i], attendee_email, None))

\* the filter or the enrichment loop raises: an entry is no dict (.get with
\* filters, the assignment of display_uid without), or one of the two
\* attendee loops raises
BookingsRaise(bookings, attendee_email, attendee_name) ==
    \E i \in DOMAIN bookings :
        \/ ~IsDict(bookings[i])
        \/ /\ IsDict(bookings[i])
           /\ \/ FilterRaises(bookings[i], attendee_email, attendee_name)
              \/ /\ booking_matches_attendee(bookings[i], attendee_email, attendee_name)
                 /\ EnrichRaises(bookings[i], attendee_email)

\* the exception of an entry that is no dict: with a filter b.get raises
\* (line 924); without one the test "start" in booking (line 1003) raises
\* on a value that is no container, booking["start"] (line 1004) on a str
\* or list that holds "start", and booking.get (line 1005) on the others
EntryException(b, attendee_email, attendee_name) ==
    IF Truthy(attendee_email) \/ Truthy(attendee_name) THEN "AttributeError"
    ELSE IF b.t = "str" /\ ~IsInfix(PyStr(<<"start">>), b) THEN "AttributeError"
    ELSE IF b.t = "list" /\ PyStr(<<"start">>) \notin Range(b.v) THEN "AttributeError"
    ELSE "TypeError"

\* the exception get_bookings ends with when BookingsRaise holds: that of
\* the first entry that is no dict, or the AttributeError of an attendee
\* that is no dict
BookingsException(bookings, attendee_email, attendee_name) ==
    LET at == {i \in DOMAIN bookings : ~IsDict(bookings[i])}
    IN  IF at = {} THEN "AttributeError"
        ELSE EntryException(bookings[CHOOSE i \in at : \A j \in at : i <= j],
                            attendee_email, attendee_name)

RECURSIVE Filter(_, _, _)
Filter(bookings, attendee_email, attendee_name) ==
    IF bookings = <<>> THEN <<>>
    ELSE (IF booking_matches_attendee(Head(bookings), attendee_email, attendee_name)
          THEN <<Head(bookings)>> ELSE <<>>)
         \o Filter(Tail(bookings), attendee_email, attendee_name)

\* lines 57-61: the America/Los_Angeles text of the instant at date d and
\* time of day c (all instants of the model are in daylight saving time,
\* UTC-7); a date alone is a naive midnight, which astimezone reads in the
\* zone of the host, taken to be UTC
LocalText(parts) ==
    IF Len(parts) = 1 THEN <<PrevDay(parts[1]), " 05:00 PM PDT">>
    ELSE LET d == parts[1]
             c == parts[2]
         IN  CASE c = "17:00:00Z" -> <<d, " 10:00 AM PDT">>
               [] c = "18:00:00Z" -> <<d, " 11:00 AM PDT">>
               [] c = "07:00:00Z" -> <<d, " 12:00 AM PDT">>
               [] c = "06:59:59Z" -> <<PrevDay(d), " 11:59 PM PDT">>
               [] c = "17:00:00.000-07:00" -> <<d, " 05:00 PM PDT">>
               [] c = "18:00:00.000-07:00" -> <<d, " 06:00 PM PDT">>

\* format_time_pst: the local time text of an ISO instant; any other value
\* comes back unchanged
format_time_pst(iso_time) ==
    IF FromIsoFormatOk(iso_time) THEN PyStr(LocalText(IsoParts(iso_time.v)))
    ELSE iso_time

\* the attendees whose e-mail equals the filter, in order
RECURSIVE WithEmail(_, _)
WithEmail(attendees, attendee_email) ==
    IF attendees = <<>> THEN <<>>
    ELSE (IF /\ IsDict(Head(attendees))
             /\ Lower(StrOf(GetD(Head(attendees), "email", PyStr(<<>>)))) = Lower(attendee_email)
          THEN <<Head(attendees)>> ELSE <<>>)
         \o WithEmail(Tail(attendees), attendee_email)

\* lines 1007-1018
PrimaryAttendee(b, attendee_email) ==
    LET attendees == AttendeesOf(b)
        matching == IF Truthy(attendee_email) THEN WithEmail(attendees, attendee_email) ELSE <<>>
    IN  IF matching # <<>> THEN matching[1]
        ELSE IF attendees # <<>> THEN attendees[1]
        ELSE None

\* str(k).lower() on the keys the bookings of the model carry
LowerKey(k) ==
    CASE k = "rescheduleUrl" -> "rescheduleurl"
      [] k = "RESCHEDULEURL" -> "rescheduleurl"
      [] k = "rescheduleLink" -> "reschedulelink"
      [] k = "Reschedule" -> "reschedule"
      [] k = "cancelUrl" -> "cancelurl"
      [] k = "cancelLink" -> "cancellink"
      [] k = "CANCEL" -> "cancel"
      [] k = "meetingUrl" -> "meetingurl"
      [] k = "joinUrl" -> "joinurl"
      [] k = "bookingUrl" -> "bookingurl"
      [] k = "eventPageUrl" -> "eventpageurl"
      [] k = "statusPageUrl" -> "statuspageurl"
      [] k = "manageLink" -> "managelink"
      [] k = "someUrl" -> "someurl"
      [] k = "eventTypeId" -> "eventtypeid"
      [] OTHER -> k

\* the first chunks of the texts for which v.startswith("http") holds
HttpChunks == {"http://", "https://"}

\* line 957: isinstance(v, str) and v.startswith("http")
IsHttpStr(v) == IsStr(v) /\ v.v # <<>> /\ v.v[1] \in HttpChunks

\* line 954: lower_map.get(key.lower()); of two keys that differ only in
\* case the later one in insertion order wins
LowerMapGet(d, key) ==
    LET at == {i \in DOMAIN d.ks : LowerKey(d.ks[i]) = LowerKey(key)}
    IN  IF at = {} THEN None
        ELSE d.v[d.ks[CHOOSE i \in at : \A j \in at : j <= i]]

\* lines 951-959: the value of the first preferred key that holds a URL
RECURSIVE find_preferred(_, _)
find_preferred(d, prefer) ==
    IF ~IsDict(d) \/ prefer = <<>> THEN None
    ELSE IF IsHttpStr(LowerMapGet(d, Head(prefer))) THEN LowerMapGet(d, Head(prefer))
    ELSE find_preferred(d, Tail(prefer))

\* the first of the dicts, in order, that yields a preferred URL
RECURSIVE FirstPreferred(_, _)
FirstPreferred(dicts, prefer) ==
    IF dicts = <<>> THEN None
    ELSE IF find_preferred(Head(dicts), prefer) # None THEN find_preferred(Head(dicts), prefer)
    ELSE FirstPreferred(Tail(dicts), prefer)

\* line 967
LinkContainers == <<"links", "link", "urls", "url", "data">>

\* the keys whose lowered name holds "url" or "link"
GenericLinkKeys(d) ==
    {k \in DOMAIN d.v :
        LowerKey(k) \in {"rescheduleurl", "reschedulelink", "cancelurl", "cancellink",
                         "meetingurl", "joinurl", "join_url", "bookingurl", "eventpageurl",
                         "statuspageurl", "booking_url", "meeting_link", "managelink",
                         "someurl", "links", "link", "urls", "url", "reschedule_url",
                         "cancel_url"}}

\* the first generic key of d, in insertion order, that holds a URL
GenericUrl(d) ==
    LET at == {i \in DOMAIN d.ks : d.ks[i] \in GenericLinkKeys(d) /\ IsHttpStr(d.v[d.ks[i]])}
    IN  IF at = {} THEN None ELSE d.v[d.ks[CHOOSE i \in at : \A j \in at : i <= j]]

\* a search that falls back to any key naming a URL or a link
first_url_fromGeneric(booking_dict, prefer) ==
    LET top == find_preferred(booking_dict, prefer)
        contained == FirstPreferred([i \in DOMAIN LinkContainers |->
                                        Get(booking_dict, LinkContainers[i])], prefer)
        shallow == FirstPreferred(Values(booking_dict), prefer)
    IN  IF top # None THEN top
        ELSE IF contained # None THEN contained
        ELSE IF shallow # None THEN shallow
        ELSE GenericUrl(booking_dict)

\* lines 941-999 with allow_generic_fallback False, as all three calls pass
\* it: the top level, then the containers, then every nested dict
first_url_from(booking_dict, prefer) ==
    LET top == find_preferred(booking_dict, prefer)
        contained == FirstPreferred([i \in DOMAIN LinkContainers |->
                                        Get(booking_dict, LinkContainers[i])], prefer)
        shallow == FirstPreferred(Values(booking_dict), prefer)
    IN  IF top # None THEN top
        ELSE IF contained # None THEN contained
        ELSE shallow

\* lines 1025-1034, 1040, 1045
BookingPrefer == <<"meetingUrl", "joinUrl", "join_url", "bookingUrl", "eventPageUrl",
                   "statusPageUrl", "booking_url", "meeting_link">>
ReschedulePrefer == <<"rescheduleUrl", "rescheduleLink", "reschedule">>
CancelPrefer == <<"cancelUrl", "cancelLink", "cancel">>

\* lines 1022-1048: the three links the loop adds, each looked up in the
\* booking that already holds the ones set before it
WithLinks(b) ==
    LET b1 == With(b, "booking_url", first_url_from(b, BookingPrefer))
        b2 == With(b1, "reschedule_url", first_url_from(b1, ReschedulePrefer))
    IN  With(b2, "cancel_url", first_url_from(b2, CancelPrefer))

\* lines 1001-1048: the fields the loop adds to a booking
Enrich(b, attendee_email) ==
    LET b1 == IF Has(b, "start") THEN With(b, "start_pst", format_time_pst(Get(b, "start"))) ELSE b
        b2 == With(b1, "display_uid", Or(Get(b, "uid"), GetD(b, "id", PyStr(<<"N/A">>))))
        primary == PrimaryAttendee(b, attendee_email)
    IN  WithLinks(IF IsDict(primary)
                  THEN With(With(b2, "primary_attendee_email", Get(primary, "email")),
                            "primary_attendee_name", Get(primary, "name"))
                  ELSE b2)

\* lines 1052-1057 for an exception that carries no response
BookingsExceptionFailure(exc) ==
    PyDict([success |-> PyBool(FALSE),
            error |-> PyStr(<<CrossMark, "Failed to get bookings: ", exc>>),
            bookings |-> PyList(<<>>)])

\* lines 1052-1057 for the HTTPError of raise_for_status (line 899), which
\* carries the response
BookingsHttpFailure(response) ==
    PyDict([success |-> PyBool(FALSE),
            error |-> PyStr(<<CrossMark, "Failed to get bookings: ", "HTTPError", "\nStatus: ">>
                            \o Digits(response.status_code)
                            \o <<"\nResponse: ">> \o Text(response, 0).v),
            bookings |-> PyList(<<>>)])

\* lines 899-1051: what get_bookings returns or raises for the final response
BookingsOutcome(response, f) ==
    IF response.status_code >= 400 THEN BookingsHttpFailure(response)
    ELSE IF response.body = NotJson THEN BookingsExceptionFailure("JSONDecodeError")
    ELSE LET parsed == ParseBookings(response.body).v IN
         IF BookingsRaise(parsed, f.attendee_email, f.attendee_name)
         THEN Raise(BookingsException(parsed, f.attendee_email, f.attendee_name))
         ELSE LET kept == Filter(parsed, f.attendee_email, f.attendee_name)
                  bookings == [i \in DOMAIN kept |-> Enrich(kept[i], f.attendee_email)]
              IN  PyDict([success |-> PyBool(TRUE),
                          bookings |-> PyList(bookings),
                          count |-> PyInt(Len(bookings))])

\* str(params) of the bookings requests
BookingsParams(f) ==
    IF Truthy(f.attendee_email) THEN <<"attendeeEmail=">> \o ReprOf(f.attendee_email) ELSE <<>>

\* lines 875-887: GET /v2/bookings
GetBookings_V2(t) ==
    /\ AtPc(t, "get_bookings", "v2_response")
    /\ LET f == Top(t)
           r == f.r
       IN  IF r.kind = "raise" \/ r.response.status_code >= 400
           THEN /\ stack' = SetTop(t, [f EXCEPT !.pc = "v1"])
                /\ UNCHANGED returned
           ELSE ReturnTo(t, BookingsOutcome(r.response, f))
    /\ UNCHANGED <<session_state, calls, processing, hasProcessing, request_cache, clock, call, overlap, created>>

\* lines 887-897: GET /v1/bookings
GetBookings_V1(t) ==
    /\ AtPc(t, "get_bookings", "v1_response")
    /\ LET f == Top(t)
           r == f.r
       IN  IF r.kind = "raise"
           THEN ReturnTo(t, BookingsExceptionFailure(r.exc))
           ELSE ReturnTo(t, BookingsOutcome(r.response, f))
    /\ UNCHANGED <<session_state, calls, processing, hasProcessing, request_cache, clock, call, overlap, created>>

GetBookingsFrame(attendee_email, attendee_name) ==
    [op |-> "get_bookings", pc |-> "v2", attendee_email |-> attendee_email,
     attendee_name |-> attendee_name, ret |-> None, r |-> NoRequest]

(***************************************************************************)
(* _resolve_booking_uid                                                     *)
(***************************************************************************)
\* lines 1083-1089 and 1103-1109: the UID a direct fetch yields, or None
\* (json() raising is swallowed by the except of the fetch)
UidOfFetch(response) ==
    IF response.status_code >= 400 \/ response.body = NotJson THEN None
    ELSE LET data == response.body
             node == IF IsDict(data) THEN GetD(data, "data", data) ELSE EmptyDict
             uid_val == IF IsDict(node) THEN Or(Get(node, "uid"), Get(node, "bookingUid")) ELSE None
         IN  IF Truthy(uid_val) THEN StrOf(uid_val) ELSE None

\* lines 1114-1120: the UID of the first listed booking with the id, or None
RECURSIVE UidOfScan(_, _)
UidOfScan(bookings, bid) ==
    IF bookings = <<>> THEN None
    ELSE IF StrOf(Get(Head(bookings), "id")) = bid /\ Truthy(Get(Head(bookings), "uid"))
    THEN StrOf(Get(Head(bookings), "uid"))
    ELSE UidOfScan(Tail(bookings), bid)

BookingUrl(api, bid) == api \o <<"/bookings/">> \o bid.v

\* lines 1066-1072
Resolve_Entry(t) ==
    /\ AtPc(t, "_resolve_booking_uid", "entry")
    /\ LET f == Top(t) IN
       IF Truthy(f.booking_uid) THEN ReturnTo(t, StrOf(f.booking_uid))
       ELSE IF ~Truthy(f.booking_id) THEN ReturnTo(t, None)
       ELSE /\ stack' = SetTop(t, [f EXCEPT !.pc = "v2"])
            /\ UNCHANGED returned
    /\ UNCHANGED <<session_state, calls, processing, hasProcessing, request_cache, clock, call, overlap, created>>

\* a resolution that scans the bookings right after the v2 fetch
Resolve_V2SkipsV1(t) ==
    /\ AtPc(t, "_resolve_booking_uid", "v2_response")
    /\ LET f == Top(t)
           r == f.r
       IN  IF r.kind = "return" /\ Truthy(UidOfFetch(r.response))
           THEN ReturnTo(t, UidOfFetch(r.response))
           ELSE /\ stack' = SetTop(t, [f EXCEPT !.pc = "scan"])
                /\ UNCHANGED returned
    /\ UNCHANGED <<session_state, calls, processing, hasProcessing, request_cache, clock, call, overlap, created>>
\* lines 1074-1091: GET /v2/bookings/{bid}
Resolve_V2(t) ==
    /\ AtPc(t, "_resolve_booking_uid", "v2_response")
    /\ LET f == Top(t)
           r == f.r
       IN  IF r.kind = "return" /\ Truthy(UidOfFetch(r.response))
           THEN ReturnTo(t, UidOfFetch(r.response))
           ELSE /\ stack' = SetTop(t, [f EXCEPT !.pc = "v1"])
                /\ UNCHANGED returned
    /\ UNCHANGED <<session_state, calls, processing, hasProcessing, request_cache, clock, call, overlap, created>>

\* lines 1093-1111: GET /v1/bookings/{bid}
Resolve_V1(t) ==
    /\ AtPc(t, "_resolve_booking_uid", "v1_response")
    /\ LET f == Top(t)
           r == f.r
       IN  IF r.kind = "return" /\ Truthy(UidOfFetch(r.response))
           THEN ReturnTo(t, UidOfFetch(r.response))
           ELSE /\ stack' = SetTop(t, [f EXCEPT !.pc = "scan"])
                /\ UNCHANGED returned
    /\ UNCHANGED <<session_state, calls, processing, hasProcessing, request_cache, clock, call, overlap, created>>

\* line 1115: self.get_bookings()
Resolve_Scan(t) ==
    /\ AtPc(t, "_resolve_booking_uid", "scan")
    /\ stack' = Push(t, [Top(t) EXCEPT !.pc = "scanned"], GetBookingsFrame(None, None))
    /\ UNCHANGED <<session_state, returned, calls, processing, hasProcessing, request_cache, clock, call, overlap, created>>

\* a resolution that scans the bookings again when the scan found no UID
Resolve_ScannedAgain(t) ==
    /\ AtPc(t, "_resolve_booking_uid", "scanned")
    /\ LET f == Top(t)
           uid == IF IsRaise(f.ret) THEN None
                  ELSE UidOfScan(GetD(f.ret, "bookings", PyList(<<>>)).v, StrOf(f.booking_id))
       IN  IF Truthy(uid) THEN ReturnTo(t, uid)
           ELSE /\ stack' = SetTop(t, [f EXCEPT !.pc = "scan"])
                /\ UNCHANGED returned
    /\ UNCHANGED <<session_state, calls, processing, hasProcessing, request_cache, clock, call, overlap, created>>
\* lines 1116-1122: the scan of the listed bookings (an exception is swallowed)
Resolve_Scanned(t) ==
    /\ AtPc(t, "_resolve_booking_uid", "scanned")
    /\ LET f == Top(t) IN
       IF IsRaise(f.ret) THEN ReturnTo(t, None)
       ELSE ReturnTo(t, UidOfScan(GetD(f.ret, "bookings", PyList(<<>>)).v, StrOf(f.booking_id)))
    /\ UNCHANGED <<session_state, calls, processing, hasProcessing, request_cache, clock, call, overlap, created>>

ResolveFrame(booking_uid, booking_id) ==
    [op |-> "_resolve_booking_uid", pc |-> "entry", booking_uid |-> booking_uid,
     booking_id |-> booking_id, ret |-> None, r |-> NoRequest]

(***************************************************************************)
(* cancel_booking                                                           *)
(***************************************************************************)
\* line 1128: resolved_uid or (booking_uid or booking_id)
PathToken(resolved_uid, booking_uid, booking_id) == Or(resolved_uid, Or(booking_uid, booking_id))

CancelUrlV2(path_token) == BookingUrl(V2, StrOf(path_token)) \o <<"/cancel">>
CancelUrlV1(path_token) == BookingUrl(V1, StrOf(path_token))

CancelClientFailure(response, resolved_uid, path_token) ==
    PyDict([success |-> PyBool(FALSE),
            error |-> PyStr(<<"Cannot cancel booking: ">> \o Text(response, 500).v),
            error_details |-> PyDict([status_code |-> PyInt(response.status_code),
                                      response_text |-> Text(response, 0),
                                      booking_uid |-> resolved_uid,
                                      requested_token |-> path_token,
                                      api_version |-> PyStr(<<"v2">>)]),
            suggestion |-> PyStr(<<"Check that the booking UID is correct and the booking exists">>)])

CancelHttpFailure(response, resolved_uid, path_token) ==
    PyDict([success |-> PyBool(FALSE),
            error |-> PyStr(<<"Cancellation failed: ">> \o Text(response, 500).v),
            error_details |-> PyDict([status_code |-> PyInt(response.status_code),
                                      response_text |-> Text(response, 0),
                                      booking_uid |-> resolved_uid,
                                      requested_token |-> path_token,
                                      api_version |-> ApiVersion(response)])])

CancelExceptionFailure(exc) ==
    PyDict([success |-> PyBool(FALSE),
            error |-> PyStr(<<CrossMark, "Failed to cancel: ", exc>>),
            error_details |-> EmptyDict])

\* lines 1205-1216: json() raising gives {}; .get on a body that is no dict raises
CancelSuccess(response, path_token) ==
    LET result_json == IF response.body = NotJson THEN EmptyDict ELSE response.body IN
    IF ~IsDict(result_json) THEN Raise("AttributeError")
    ELSE PyDict([success |-> PyBool(TRUE),
                 message |-> PyStr(<<"Booking ">> \o StrOf(path_token).v \o <<" cancelled">>),
                 data |-> GetD(result_json, "data", result_json)])

\* line 1127: self._resolve_booking_uid(booking_uid, booking_id)
Cancel_Entry(t) ==
    /\ AtPc(t, "cancel_booking", "entry")
    /\ stack' = Push(t, [Top(t) EXCEPT !.pc = "v2"],
                     ResolveFrame(Top(t).booking_uid, Top(t).booking_id))
    /\ UNCHANGED <<session_state, returned, calls, processing, hasProcessing, request_cache, clock, call, overlap, created>>

\* a cancel_booking that goes on to v1 after every status >= 400 of v2
Cancel_V2FallsBackOn4xx(t) ==
    /\ AtPc(t, "cancel_booking", "v2_response")
    /\ LET f == Top(t)
           r == f.r
           resolved_uid == f.ret
           path_token == PathToken(resolved_uid, f.booking_uid, f.booking_id)
       IN  IF r.kind = "raise" THEN ReturnTo(t, CancelExceptionFailure(r.exc))
           ELSE IF r.response.status_code >= 400
           THEN /\ stack' = SetTop(t, [f EXCEPT !.pc = "v1"])
                /\ UNCHANGED returned
           ELSE ReturnTo(t, CancelSuccess(r.response, path_token))
    /\ UNCHANGED <<session_state, calls, processing, hasProcessing, request_cache, clock, call, overlap, created>>

\* lines 1128-1171: POST /v2/bookings/{path_token}/cancel.  A 4xx ends the
\* call, a 5xx raises the HTTPError whose handler goes on to v1, any other
\* exception reaches the handler of line 1217
Cancel_V2(t) ==
    /\ AtPc(t, "cancel_booking", "v2_response")
    /\ LET f == Top(t)
           r == f.r
           resolved_uid == f.ret
           path_token == PathToken(resolved_uid, f.booking_uid, f.booking_id)
       IN  IF r.kind = "raise" THEN ReturnTo(t, CancelExceptionFailure(r.exc))
           ELSE IF r.response.status_code >= 500
           THEN /\ stack' = SetTop(t, [f EXCEPT !.pc = "v1"])
                /\ UNCHANGED returned
           ELSE IF r.response.status_code >= 400
           THEN ReturnTo(t, CancelClientFailure(r.response, resolved_uid, path_token))
           ELSE ReturnTo(t, CancelSuccess(r.response, path_token))
    /\ UNCHANGED <<session_state, calls, processing, hasProcessing, request_cache, clock, call, overlap, created>>

\* lines 1171-1216: DELETE /v1/bookings/{path_token}
Cancel_V1(t) ==
    /\ AtPc(t, "cancel_booking", "v1_response")
    /\ LET f == Top(t)
           r == f.r
           resolved_uid == f.ret
           path_token == PathToken(resolved_uid, f.booking_uid, f.booking_id)
       IN  IF r.kind = "raise" THEN ReturnTo(t, CancelExceptionFailure(r.exc))
           ELSE IF r.response.status_code >= 400
           THEN ReturnTo(t, CancelHttpFailure(r.response, resolved_uid, path_token))
           ELSE ReturnTo(t, CancelSuccess(r.response, path_token))
    /\ UNCHANGED <<session_state, calls, processing, hasProcessing, request_cache, clock, call, overlap, created>>

CancelFrame(booking_uid, booking_id, reason) ==
    [op |-> "cancel_booking", pc |-> "entry", booking_uid |-> booking_uid,
     booking_id |-> booking_id, reason |-> reason, ret |-> None, r |-> NoRequest]

(***************************************************************************)
(* reschedule_booking                                                       *)
(***************************************************************************)
RescheduleUrl(path_token) == BookingUrl(V2, StrOf(path_token)) \o <<"/reschedule">>

RescheduleClientFailure(response, resolved_uid, path_token) ==
    PyDict([success |-> PyBool(FALSE),
            error |-> PyStr(<<"Cannot reschedule: ">> \o Text(response, 500).v),
            error_details |-> PyDict([status_code |-> PyInt(response.status_code),
                                      response_text |-> Text(response, 0),
                                      booking_uid |-> resolved_uid,
                                      requested_token |-> path_token,
                                      api_version |-> PyStr(<<"v2">>)]),
            suggestion |-> PyStr(<<"Check that the booking UID is correct and the new time is available">>)])

RescheduleExceptionFailure(exc) ==
    PyDict([success |-> PyBool(FALSE),
            error |-> PyStr(<<CrossMark, "Failed to reschedule: ", exc>>),
            error_details |-> EmptyDict])

\* lines 1364-1377
RescheduleSuccess(response, path_token) ==
    LET result_json == IF response.body = NotJson THEN EmptyDict ELSE response.body IN
    IF ~IsDict(result_json) THEN Raise("AttributeError")
    ELSE PyDict([success |-> PyBool(TRUE),
                 message |-> PyStr(<<"Booking ">> \o StrOf(path_token).v \o <<" rescheduled">>),
                 data |-> GetD(result_json, "data", result_json),
                 api_version |-> PyStr(<<"v2">>)])

\* lines 1350-1362: the result of the handler of the fallback's exceptions
FallbackFailure(v1_error, resolved_uid, path_token) ==
    PyDict([success |-> PyBool(FALSE),
            error |-> PyStr(<<"Reschedule failed on both v2 and v1: ">> \o v1_error),
            error_details |-> PyDict([error |-> PyStr(v1_error),
                                      booking_uid |-> resolved_uid,
                                      requested_token |-> path_token])])

\* lines 1341-1348
FallbackSuccess(new_booking_result) ==
    PyDict([success |-> PyBool(TRUE),
            message |-> PyStr(<<"Booking rescheduled (via cancel + create)">>),
            data |-> GetD(new_booking_result, "data", EmptyDict),
            api_version |-> PyStr(<<"v1-cancel-create">>),
            new_booking_uid |-> Get(new_booking_result, "booking_uid")])

\* lines 1297-1301: the first listed booking whose uid, or whose id as a
\* str, equals the token; None if there is none
RECURSIVE FindOriginal(_, _)
FindOriginal(bookings, path_token) ==
    IF bookings = <<>> THEN None
    ELSE IF \/ Get(Head(bookings), "uid") = path_token
            \/ StrOf(Get(Head(bookings), "id")) = path_token
    THEN Head(bookings)
    ELSE FindOriginal(Tail(bookings), path_token)

\* entering the fallback on every status from 400 on
FallsBackFrom400(response) == response.status_code >= 400

\* line 1282: the status that raises the HTTPError the fallback handles
FallsBack(response) == response.status_code >= 500

\* line 1235: self._resolve_booking_uid(booking_uid, booking_id)
Reschedule_Entry(t) ==
    /\ AtPc(t, "reschedule_booking", "entry")
    /\ stack' = Push(t, [Top(t) EXCEPT !.pc = "v2"],
                     ResolveFrame(Top(t).booking_uid, Top(t).booking_id))
    /\ UNCHANGED <<session_state, returned, calls, processing, hasProcessing, request_cache, clock, call, overlap, created>>

\* lines 1236-1285 and 1364-1377: POST /v2/bookings/{path_token}/reschedule.
\* A 4xx ends the call, a 5xx raises the HTTPError whose handler is the
\* cancel + create fallback, any other exception reaches line 1379
Reschedule_V2(t) ==
    /\ AtPc(t, "reschedule_booking", "v2_response")
    /\ LET f == Top(t)
           r == f.r
           resolved_uid == f.ret
           path_token == PathToken(resolved_uid, f.booking_uid, f.booking_id)
       IN  IF r.kind = "raise" THEN ReturnTo(t, RescheduleExceptionFailure(r.exc))
           ELSE IF FallsBack(r.response)
           THEN /\ stack' = SetTop(t, [f EXCEPT !.pc = "fallback",
                                                !.resolved_uid = resolved_uid,
                                                !.path_token = path_token])
                /\ UNCHANGED returned
           ELSE IF r.response.status_code >= 400
           THEN ReturnTo(t, RescheduleClientFailure(r.response, resolved_uid, path_token))
           ELSE ReturnTo(t, RescheduleSuccess(r.response, path_token))
    /\ UNCHANGED <<session_state, calls, processing, hasProcessing, request_cache, clock, call, overlap, created>>

\* line 1292: self.get_bookings()
Reschedule_Fallback(t) ==
    /\ AtPc(t, "reschedule_booking", "fallback")
    /\ stack' = Push(t, [Top(t) EXCEPT !.pc = "lookup"], GetBookingsFrame(None, None))
    /\ UNCHANGED <<session_state, returned, calls, processing, hasProcessing, request_cache, clock, call, overlap, created>>

\* Python: type(x).__name__
TypeName(x) ==
    CASE x.t = "None" -> "NoneType"
      [] x.t \in {"bool", "int", "str", "list", "dict", "tuple"} -> x.t
      [] OTHER -> "object"

\* lines 1312-1314: the text of the exception that attendees[0] or
\* attendee.get raises on truthy attendees, or <<>> if neither raises
AttendeeError(attendees) ==
    IF IsList(attendees) \/ attendees.t = "tuple"
    THEN IF IsDict(attendees.v[1]) THEN <<>>
         ELSE <<"'", TypeName(attendees.v[1]), "' object has no attribute 'get'">>
    ELSE IF IsStr(attendees) THEN <<"'", "str", "' object has no attribute 'get'">>
    ELSE IF IsDict(attendees) THEN <<"0">>
    ELSE <<"'", TypeName(attendees), "' object is not subscriptable">>

\* what ends the fallback before the cancellation (lines 1293-1314):
\* the text of the exception, or <<>> if the lookup succeeds
LookupError(booking_resp, path_token) ==
    IF IsRaise(booking_resp) THEN booking_resp.v
    ELSE IF ~Truthy(Get(booking_resp, "success"))
    THEN <<"Could not fetch booking details for v1 reschedule">>
    ELSE LET original_booking == FindOriginal(GetD(booking_resp, "bookings", PyList(<<>>)).v, path_token)
         IN  IF ~Truthy(original_booking)
             THEN <<"Could not find booking ">> \o StrOf(path_token).v
             ELSE IF ~Truthy(GetD(original_booking, "attendees", PyList(<<>>)))
             THEN <<"No attendees found in original booking">>
             ELSE AttendeeError(GetD(original_booking, "attendees", PyList(<<>>)))

\* lines 1293-1320: the original booking is looked up and its cancellation called
Reschedule_Lookup(t) ==
    /\ AtPc(t, "reschedule_booking", "lookup")
    /\ LET f == Top(t)
           error == LookupError(f.ret, f.path_token)
           original_booking == FindOriginal(Get(f.ret, "bookings").v, f.path_token)
           attendee == Get(original_booking, "attendees").v[1]
       IN  IF error # <<>>
           THEN ReturnTo(t, FallbackFailure(error, f.resolved_uid, f.path_token))
           ELSE /\ stack' = Push(t, [f EXCEPT !.pc = "cancelled",
                                              !.event_type_id = Get(original_booking, "eventTypeId"),
                                              !.attendee_email = Get(attendee, "email"),
                                              !.attendee_name = Get(attendee, "name")],
                                 CancelFrame(f.path_token, None,
                                             Or(f.reason, PyStr(<<"Rescheduling to new time">>))))
                /\ UNCHANGED returned
    /\ UNCHANGED <<session_state, calls, processing, hasProcessing, request_cache, clock, call, overlap, created>>

\* a fallback that creates the new booking whatever the cancellation reported
Reschedule_CancelledCreatesAnyway(t) ==
    /\ AtPc(t, "reschedule_booking", "cancelled")
    /\ LET f == Top(t)
           cancel_result == f.ret
       IN  IF IsRaise(cancel_result)
           THEN ReturnTo(t, FallbackFailure(cancel_result.v, f.resolved_uid, f.path_token))
           ELSE /\ stack' = Push(t, [f EXCEPT !.pc = "created"],
                                 CreateBookingFrame(f.event_type_id, f.new_start_time,
                                                    f.attendee_email, f.attendee_name,
                                                    Or(f.reason, PyStr(<<"Rescheduled meeting">>))))
                /\ UNCHANGED returned
    /\ UNCHANGED <<session_state, calls, processing, hasProcessing, request_cache, clock, call, overlap, created>>
\* lines 1322-1334: the cancellation's result is read and the creation called
Reschedule_Cancelled(t) ==
    /\ AtPc(t, "reschedule_booking", "cancelled")
    /\ LET f == Top(t)
           cancel_result == f.ret
       IN  IF IsRaise(cancel_result)
           THEN ReturnTo(t, FallbackFailure(cancel_result.v, f.resolved_uid, f.path_token))
           ELSE IF ~Truthy(Get(cancel_result, "success"))
           THEN ReturnTo(t, FallbackFailure(<<"Failed to cancel original booking: ">>
                                            \o StrOf(Get(cancel_result, "error")).v,
                                            f.resolved_uid, f.path_token))
           ELSE /\ stack' = Push(t, [f EXCEPT !.pc = "created"],
                                 CreateBookingFrame(f.event_type_id, f.new_start_time,
                                                    f.attendee_email, f.attendee_name,
                                                    Or(f.reason, PyStr(<<"Rescheduled meeting">>))))
                /\ UNCHANGED returned
    /\ UNCHANGED <<session_state, calls, processing, hasProcessing, request_cache, clock, call, overlap, created>>

\* a creation failure reported in the words of a cancellation failure
CreatedErrorAsCancelError(new_booking_result) ==
    IF IsRaise(new_booking_result) THEN new_booking_result.v
    ELSE IF ~IsDict(new_booking_result) THEN <<"'NoneType' object has no attribute 'get'">>
    ELSE IF ~Truthy(Get(new_booking_result, "success"))
    THEN <<"Failed to cancel original booking: ">> \o StrOf(Get(new_booking_result, "error")).v
    ELSE <<>>

\* the text of the exception raised after create_booking returned (lines
\* 1336-1339; .get on None raises AttributeError), or <<>>
CreatedError(new_booking_result) ==
    IF IsRaise(new_booking_result) THEN new_booking_result.v
    ELSE IF ~IsDict(new_booking_result) THEN <<"'NoneType' object has no attribute 'get'">>
    ELSE IF ~Truthy(Get(new_booking_result, "success"))
    THEN <<"Failed to create new booking: ">> \o StrOf(Get(new_booking_result, "error")).v
    ELSE <<>>

\* lines 1336-1348: the creation's result is read
Reschedule_Created(t) ==
    /\ AtPc(t, "reschedule_booking", "created")
    /\ LET f == Top(t) IN
       IF CreatedError(f.ret) # <<>>
       THEN ReturnTo(t, FallbackFailure(CreatedError(f.ret), f.resolved_uid, f.path_token))
       ELSE ReturnTo(t, FallbackSuccess(f.ret))
    /\ UNCHANGED <<session_state, calls, processing, hasProcessing, request_cache, clock, call, overlap, created>>

RescheduleFrame(booking_uid, booking_id, new_start_time, reason) ==
    [op |-> "reschedule_booking", pc |-> "entry", booking_uid |-> booking_uid,
     booking_id |-> booking_id, new_start_time |-> new_start_time, reason |-> reason,
     resolved_uid |-> None, path_token |-> None, event_type_id |-> None,
     attendee_email |-> None, attendee_name |-> None, ret |-> None, r |-> NoRequest]

(***************************************************************************)
(* diagnose_slots_issue                                                     *)
(***************************************************************************)
\* datetime.strptime(date, "%Y-%m-%d") raises: the exception, or "" (the
\* dates that parse are those the model uses)
StrptimeError(date) ==
    IF ~IsStr(date) THEN "TypeError"
    ELSE IF ~(Len(date.v) = 1 /\ date.v[1] \in Dates) THEN "ValueError"
    ELSE ""

\* lines 1906-1911: the America/Los_Angeles day of date as UTC instants
\* (the dates are in daylight saving time: UTC-7)
DayStartUtc(date) == PyStr(<<date.v[1], "T", "07:00:00Z">>)
DayEndUtc(date) == PyStr(<<NextDay(date.v[1]), "T", "06:59:59Z">>)

\* the dates datetime.now() + timedelta(days=1) may give (line 1408)
TomorrowDates == {"2025-03-11", "2025-03-12"}

\* str(data)[:n]: the text Python writes data as, cut to n characters
Sample(data, n) == [t |-> "repr", v |-> data]

\* the entry of results["tests"] of a test that failed with an exception
TestRaised(name, exc) ==
    PyDict([name |-> PyStr(<<name>>), passed |-> PyBool(FALSE), error |-> PyStr(exc)])

\* the entry of a test whose request was answered with another status than 200
TestRefused(name, response, n) ==
    PyDict([name |-> PyStr(<<name>>), passed |-> PyBool(FALSE),
            status_code |-> PyInt(response.status_code), error |-> Text(response, n)])

\* the first entry of event_types the loop of lines 1428-1437 stops at: the
\* entry with the id, or an entry that has no get; 0 if there is none
FirstStop(event_types, event_type_id) ==
    LET stops == {i \in DOMAIN event_types :
                     \/ ~IsDict(event_types[i])
                     \/ StrOf(Get(event_types[i], "id")) = StrOf(event_type_id)}
    IN  IF stops = {} THEN 0 ELSE CHOOSE i \in stops : \A j \in stops : i <= j

\* lines 1423-1462, Test 1: the entry for what get_event_types returned or
\* raised, and whether diagnose_slots_issue returns after it
TypesTest(evt_result, event_type_id) ==
    IF IsRaise(evt_result)
    THEN [test |-> TestRaised("Event Type Exists", evt_result.v), stop |-> FALSE]
    ELSE IF ~Truthy(Get(evt_result, "success"))
    THEN [test |-> PyDict([name |-> PyStr(<<"Event Type Exists">>), passed |-> PyBool(FALSE),
                           error |-> Get(evt_result, "error")]),
          stop |-> TRUE]
    ELSE LET event_types == GetD(evt_result, "event_types", PyList(<<>>)).v
             i == FirstStop(event_types, event_type_id)
         IN  IF i = 0
             THEN [test |-> PyDict([name |-> PyStr(<<"Event Type Exists">>),
                                    passed |-> PyBool(FALSE),
                                    error |-> PyStr(<<"Event type not found">>),
                                    available_types |->
                                        PyList([j \in DOMAIN event_types |->
                                            PyStr(StrOf(Get(event_types[j], "id")).v \o <<": ">>
                                                  \o StrOf(Get(event_types[j], "title")).v)])]),
                   stop |-> TRUE]
             ELSE IF ~IsDict(event_types[i])
             THEN [test |-> TestRaised("Event Type Exists", <<"AttributeError">>), stop |-> FALSE]
             ELSE [test |-> PyDict([name |-> PyStr(<<"Event Type Exists">>),
                                    passed |-> PyBool(TRUE), details |-> event_types[i]]),
                   stop |-> FALSE]

\* sum of len(slots_list) over the lists under the dates
RECURSIVE CountSlots(_)
CountSlots(vals) ==
    IF vals = <<>> THEN 0
    ELSE (IF IsList(Head(vals)) THEN Len(Head(vals).v) ELSE 0) + CountSlots(Tail(vals))

\* lines 1485-1523 (key "data", with response_sample) and 1601-1630 (key
\* "slots"): the entry of a test that counts the slots of its answer
CountingTest(name, r, key, sample, cut) ==
    IF r.kind = "raise" THEN TestRaised(name, <<r.exc>>)
    ELSE IF r.response.status_code # 200 THEN TestRefused(name, r.response, cut)
    ELSE IF r.response.body = NotJson THEN TestRaised(name, <<"JSONDecodeError">>)
    ELSE LET data == r.response.body
             dated == IsDict(data) /\ Has(data, key)
         IN  IF dated /\ ~IsDict(Get(data, key))
             THEN \* .items() of a value that is no dict
                  TestRaised(name, <<"AttributeError">>)
             ELSE LET passed == PyDict([name |-> PyStr(<<name>>), passed |-> PyBool(TRUE),
                                        status_code |-> PyInt(r.response.status_code),
                                        slots_found |-> PyInt(IF dated
                                                              THEN CountSlots(Values(Get(data, key)))
                                                              ELSE 0)])
                  IN  IF sample THEN With(passed, "response_sample", Sample(data, 300))
                      ELSE passed

\* lines 1553-1574: the entry of Test 3
IsoTest(r) ==
    IF r.kind = "raise" THEN TestRaised("v2 API ISO Timestamps", <<r.exc>>)
    ELSE IF r.response.status_code # 200
    THEN TestRefused("v2 API ISO Timestamps", r.response, 200)
    ELSE PyDict([name |-> PyStr(<<"v2 API ISO Timestamps">>), passed |-> PyBool(TRUE),
                 status_code |-> PyInt(r.response.status_code)])

\* the report: lines 1414-1419, and lines 1634-1636 when all tests ran
DiagnoseResults(f, tests, finished) ==
    PyDict([event_type_id |-> f.event_type_id,
            test_date |-> f.test_date,
            tests |-> PyList(tests),
            overall_success |->
                PyBool(finished /\ \E i \in DOMAIN tests : Truthy(Get(tests[i], "passed")))])

\* lines 1407-1424: test_date defaults to tomorrow; Test 1 calls
\* get_event_types
Diagnose_Entry(t) ==
    /\ AtPc(t, "diagnose_slots_issue", "entry")
    /\ \E test_date \in IF Truthy(Top(t).test_date) THEN {Top(t).test_date}
                        ELSE {PyStr(<<d>>) : d \in TomorrowDates} :
         stack' = Push(t, [Top(t) EXCEPT !.pc = "types", !.test_date = test_date],
                       GetEventTypesFrame)
    /\ UNCHANGED <<session_state, returned, calls, processing, hasProcessing, request_cache, clock,
                   call, overlap, created>>

\* lines 1425-1462: Test 1 is entered in the report; an event type that is
\* not listed, or a failure of get_event_types, ends the diagnosis
Diagnose_Types(t) ==
    /\ AtPc(t, "diagnose_slots_issue", "types")
    /\ LET f == Top(t)
           first == TypesTest(f.ret, f.event_type_id)
       IN  IF first.stop
           THEN ReturnTo(t, DiagnoseResults(f, <<first.test>>, FALSE))
           ELSE /\ stack' = SetTop(t, [f EXCEPT !.pc = "simple", !.tests = <<first.test>>])
                /\ UNCHANGED returned
    /\ UNCHANGED <<session_state, calls, processing, hasProcessing, request_cache, clock, call,
                   overlap, created>>

\* lines 1485-1533: Test 2 is entered in the report.  strptime raises in
\* Test 3 and in Test 4 for a test_date that is no date: both fail without
\* a request
Diagnose_Simple(t) ==
    /\ AtPc(t, "diagnose_slots_issue", "simple_response")
    /\ LET f == Top(t)
           tests == Append(f.tests, CountingTest("v2 API Simple Dates", f.r, "data", TRUE, 300))
       IN  IF StrptimeError(f.test_date) # ""
           THEN ReturnTo(t, DiagnoseResults(f,
                    tests \o <<TestRaised("v2 API ISO Timestamps", <<StrptimeError(f.test_date)>>),
                               TestRaised("v1 API Fallback", <<StrptimeError(f.test_date)>>)>>,
                    TRUE))
           ELSE /\ stack' = SetTop(t, [f EXCEPT !.pc = "iso", !.tests = tests])
                /\ UNCHANGED returned
    /\ UNCHANGED <<session_state, calls, processing, hasProcessing, request_cache, clock, call,
                   overlap, created>>

\* lines 1553-1584: Test 3 is entered in the report
Diagnose_Iso(t) ==
    /\ AtPc(t, "diagnose_slots_issue", "iso_response")
    /\ stack' = SetTop(t, [Top(t) EXCEPT !.pc = "v1", !.tests = Append(@, IsoTest(Top(t).r))])
    /\ UNCHANGED <<session_state, returned, calls, processing, hasProcessing, request_cache, clock,
                   call, overlap, created>>

\* lines 1601-1660: Test 4 is entered in the report, and the report returned
Diagnose_V1(t) ==
    /\ AtPc(t, "diagnose_slots_issue", "v1_response")
    /\ LET f == Top(t) IN
       ReturnTo(t, DiagnoseResults(f, Append(f.tests,
                                             CountingTest("v1 API Fallback", f.r, "slots", FALSE, 200)),
                                   TRUE))
    /\ UNCHANGED <<session_state, calls, processing, hasProcessing, request_cache, clock, call,
                   overlap, created>>

DiagnoseFrame(event_type_id, test_date) ==
    [op |-> "diagnose_slots_issue", pc |-> "entry", event_type_id |-> event_type_id,
     test_date |-> test_date, tests |-> <<>>, ret |-> None, r |-> NoRequest]

\* bodies the backend answers the slots GETs of the diagnosis with
DiagnoseBodies ==
    {ODict(<<"status", "data">>,
           [status |-> PyStr(<<"success">>),
            data |-> ODict(<<"2025-03-10">>,
                           "2025-03-10" :> PyList(<<ODict(<<"start">>, [start |-> SlotA]),
                                                    ODict(<<"start">>, [start |-> SlotB])>>))]),
     ODict(<<"slots", "data">>,
           [slots |-> ODict(<<"2025-03-10">>,
                            "2025-03-10" :> PyList(<<ODict(<<"time">>, [time |-> SlotA])>>)),
            data |-> PyList(<<>>)]),
     NotJson}

(***************************************************************************)
(* The requests of the operations.                                          *)
(***************************************************************************)
\* the _make_request_with_retry call of frame f at its pc ("v2" or "v1"):
\* its arguments, and the bodies the backend may answer it with
Ask(method, url, params, max_retries, bodies, refusals) ==
    [method |-> method, url |-> url, params |-> params, max_retries |-> max_retries,
     bodies |-> bodies, refusals |-> refusals]

RequestOf(f) ==
    LET v2 == f.pc = "v2" IN
    CASE f.op = "create_booking" ->
            Ask("POST", IF v2 THEN V2 \o <<"/bookings">> ELSE V1 \o <<"/bookings?apiKey=">>,
                <<>>, CreateRetries, CreateBodies, CreateRefused)
      [] f.op = "get_event_types" ->
            Ask("GET", IF v2 THEN V2 \o <<"/event-types">> ELSE V1 \o <<"/event-types?apiKey=">>,
                <<>>, ReadRetries, EventTypeBodies, Refused)
      [] f.op = "get_available_slots" ->
            Ask("GET", (IF v2 THEN V2 ELSE V1) \o <<"/slots">>,
                IF v2 THEN SlotsParams(f, normalize_date(f.start_date), normalize_date(f.end_date), TRUE)
                ELSE SlotsParams(f, f.start_date, f.end_date, FALSE),
                ReadRetries, SlotBodies, Refused)
      [] f.op = "get_bookings" ->
            Ask("GET", (IF v2 THEN V2 ELSE V1) \o <<"/bookings">>,
                IF v2 THEN BookingsParams(f) ELSE BookingsParams(f) \o <<"apiKey=">>,
                ReadRetries, BookingsBodies, Refused)
      [] f.op = "_resolve_booking_uid" ->
            Ask("GET", BookingUrl(IF v2 THEN V2 ELSE V1, StrOf(f.booking_id)),
                IF v2 THEN <<>> ELSE <<"apiKey=">>,
                ReadRetries, FetchBodies, Refused)
      [] f.op = "cancel_booking" ->
            LET path_token == PathToken(f.ret, f.booking_uid, f.booking_id) IN
            IF v2 THEN Ask("POST", CancelUrlV2(path_token), <<>>, ReadRetries, CancelBodies, Refused)
            ELSE Ask("DELETE", CancelUrlV1(path_token),
                     <<"apiKey=", "cancellationReason=">> \o ReprOf(f.reason), ReadRetries,
                     CancelBodies, Refused)
      [] f.op = "reschedule_booking" ->
            Ask("POST", RescheduleUrl(PathToken(f.ret, f.booking_uid, f.booking_id)), <<>>,
                ReadRetries, CancelBodies, Refused)
      [] f.op = "diagnose_slots_issue" ->
            IF f.pc = "simple"
            THEN Ask("GET", V2 \o <<"/slots">>, SlotsParams(f, f.test_date, f.test_date, TRUE),
                     DiagnoseRetries, DiagnoseBodies, Refused)
            ELSE IF f.pc = "iso"
            THEN Ask("GET", V2 \o <<"/slots">>,
                     SlotsParams(f, DayStartUtc(f.test_date), DayEndUtc(f.test_date), TRUE),
                     DiagnoseRetries, DiagnoseBodies, Refused)
            ELSE Ask("GET", V1 \o <<"/slots">>,
                     SlotsParams(f, DayStartUtc(f.test_date), DayEndUtc(f.test_date), FALSE),
                     DiagnoseRetries, DiagnoseBodies, Refused)
      [] f.op = "_make_request_with_retry" ->
            Ask(f.method, f.url, f.params, f.max_retries, {EmptyDict}, {Resp(404, NotJson)})

\* the backend processes the attempt: it answers 2xx, or the attempt takes
\* effect although its answer is lost or is a 5xx
TakesEffect(o) ==
    IF "effect" \in DOMAIN o THEN o.effect ELSE o.kind = "resp" /\ o.status < 400
\* the bookings the backend creates for an attempt of the request of frame
\* f that meets o
Creations(f, o) == IF f.op = "create_booking" /\ TakesEffect(o) THEN 1 ELSE 0

\* the places of a frame at which it is inside _make_request_with_retry,
\* and the place at which it reads what the call returned or raised
RequestPcs == {"v2", "v1", "request", "simple", "iso"}
ResponsePc(pc) ==
    CASE pc = "v2" -> "v2_response"
      [] pc = "v1" -> "v1_response"
      [] pc = "simple" -> "simple_response"
      [] pc = "iso" -> "iso_response"
      [] OTHER -> "response"

\* the frame waits in requests.request (r.kind "sent") or in time.sleep
\* (r.kind "sleep") of the pass r.attempt of its call
InFlight(f) == f.r.kind \in {"sent", "sleep"}
Sent(attempt) ==
    [kind |-> "sent", exc |-> "", response |-> NoRequest.response, attempt |-> attempt,
     wake |-> 0]

\* a direct call of _make_request_with_retry keeps what its requests met,
\* and whether it returned a cached response
Noted(f, o) == IF "met" \in DOMAIN f THEN [f EXCEPT !.met = Append(@, o)] ELSE f
Served(f) == IF "served" \in DOMAIN f THEN [f EXCEPT !.served = TRUE] ELSE f

\* lines 185-200 of the pass `attempt` of frame f at time now: a cached
\* response is returned without a request (line 196), or the request goes
\* out and the thread waits for its answer
Begun(f, attempt, cache, now) ==
    LET ask == RequestOf(f)
        cache_key == <<ask.method, ask.url, ask.params>>
    IN  IF CacheHit(ask.method, cache_key, cache, now)
        THEN [Served(f) EXCEPT !.pc = ResponsePc(f.pc),
                               !.r = [kind |-> "return", exc |-> "",
                                      response |-> cache[cache_key].response]]
        ELSE [f EXCEPT !.r = Sent(attempt)]

\* the top frame of t calls _make_request_with_retry: the first pass of
\* the loop up to its requests.request call
MakeRequest(t) ==
    /\ stack[t] # <<>>
    /\ Top(t).pc \in RequestPcs
    /\ ~InFlight(Top(t))
    /\ stack' = SetTop(t, Begun(Top(t), 0, request_cache, clock))
    /\ UNCHANGED <<session_state, returned, calls, processing, hasProcessing, request_cache,
                   clock, call, overlap, created>>

\* requests.request ends in thread t, having met one of outcomes: the rest
\* of the pass (lines 200-225) stores and returns the response, raises, or
\* goes to sleep until wake
Receive(t, outcomes) ==
    /\ stack[t] # <<>>
    /\ Top(t).pc \in RequestPcs
    /\ Top(t).r.kind = "sent"
    /\ LET f == Top(t)
           ask == RequestOf(f)
       IN  \E o \in outcomes :
             LET got == Received(ask.method, ask.url, ask.params, ask.max_retries, o,
                                 request_cache, clock, f.r.attempt)
             IN  /\ request_cache' = got.cache
                 /\ created' = [created EXCEPT ![t] = @ + Creations(f, o)]
                 /\ stack' = SetTop(t,
                        IF got.kind = "sleep"
                        THEN [Noted(f, o) EXCEPT !.r = [kind |-> "sleep", exc |-> "",
                                                        response |-> got.response,
                                                        attempt |-> f.r.attempt + 1,
                                                        wake |-> clock + got.delay]]
                        ELSE [Noted(f, o) EXCEPT !.pc = ResponsePc(f.pc),
                                                 !.r = [kind |-> got.kind, exc |-> got.exc,
                                                        response |-> got.response]])
    /\ UNCHANGED <<session_state, returned, calls, processing, hasProcessing, clock, call, overlap>>

\* time.sleep returns in thread t (lines 214, 223): the delay has passed,
\* and the next pass runs up to its requests.request call
Wake(t) ==
    /\ stack[t] # <<>>
    /\ Top(t).pc \in RequestPcs
    /\ Top(t).r.kind = "sleep"
    /\ clock' = IF clock < Top(t).r.wake THEN Top(t).r.wake ELSE clock
    /\ stack' = SetTop(t, Begun(Top(t), Top(t).r.attempt, request_cache, clock'))
    /\ UNCHANGED <<session_state, returned, calls, processing, hasProcessing, request_cache, call,
                   overlap, created>>

\* what the requests.request call of the top frame of t may meet
OutcomesOf(t) ==
    LET ask == RequestOf(Top(t)) IN Final(ask.bodies, ask.refusals) \cup Again

\* the backend answers the request of the top frame of t
Answer(t) ==
    /\ stack[t] # <<>>
    /\ Top(t).r.kind = "sent"
    /\ Receive(t, OutcomesOf(t))

\* what a booking POST of one of two concurrent callers meets
PostOutcomes ==
    {Resp(200, CreatedBooking), Resp(200, NotJson), Resp(409, NotJson), Resp(500, NotJson),
     TransportError}

\* the backend answers the booking POST of the top frame of t
AnswerPost(t) ==
    /\ stack[t] # <<>>
    /\ Top(t).op = "create_booking"
    /\ Receive(t, PostOutcomes)

\* lines 2450-2470: the message the transcript of a session starts with
SystemMessage ==
    PyDict([role |-> PyStr(<<"system">>), content |-> PyStr(<<"You are a helpful assistant">>)])

Init ==
    /\ stack = [t \in Threads |-> <<>>]
    /\ returned = [t \in Threads |-> Pending]
    /\ calls = 0
    /\ processing = {}
    /\ hasProcessing = FALSE
    /\ request_cache = <<>>
    /\ clock = 0
    /\ call = [t \in Threads |-> NoCall]
    /\ overlap = [t \in Threads |-> {}]
    /\ session_state = [messages |-> <<SystemMessage>>, manual_event_id |-> None]
    /\ created = [t \in Threads |-> 0]

(***************************************************************************)
(* Two threads of one session calling create_booking on one adapter.        *)
(***************************************************************************)
NextCreate ==
    \E t \in Threads :
        \/ Call_create_booking(t)
        \/ MakeRequest(t)
        \/ AnswerPost(t)
        \/ Wake(t)
        \/ CreateBooking_Check(t)
        \/ CreateBooking_Init(t)
        \/ CreateBooking_Add(t)
        \/ CreateBooking_Validate(t)
        \/ CreateBooking_V2(t)
        \/ CreateBooking_V1(t)
        \/ CreateBooking_Release(t)
        \/ CreateBooking_Remove(t)

SpecCreate == Init /\ [][NextCreate]_vars

(***************************************************************************)
(* One caller calling an operation of a new adapter.                        *)
(***************************************************************************)
\* the thread of the script
Main == CHOOSE t \in Threads : \A u \in Threads : t <= u
\* seconds that pass in one step of the clock: the lifetime of a cache entry
TickSeconds == CacheTTL

BookingId11 == PyStr(<<"1", "1">>)
Uid11 == PyStr(<<"u11">>)

\* a date no strptime("%Y-%m-%d") reads
SlashDate == PyStr(<<"03/10/2025">>)

\* the calls a caller makes on the adapter
TopCalls ==
    {GetEventTypesFrame,
     GetAvailableSlotsFrame(PyInt(5), PyStr(<<"2025-03-10">>), PyStr(<<"2025-03-10">>)),
     GetBookingsFrame(None, None),
     GetBookingsFrame(AnnEmail, None),
     CancelFrame(Uid11, None, PyStr(<<"Cancelled by user">>)),
     CancelFrame(None, BookingId11, PyStr(<<"Cancelled by user">>)),
     RescheduleFrame(Uid11, None, Iso2, PyStr(<<>>)),
     DiagnoseFrame(PyInt(5), PyStr(<<"2025-03-10">>)),
     DiagnoseFrame(PyInt(6), None),
     DiagnoseFrame(PyStr(<<"5">>), SlashDate)}
    \cup {CreateBookingFrame(a[1], a[2], a[3], a[4], PyStr(<<>>)) : a \in CreateArgs}

\* a caller calls one of the operations frames of the adapter
CallOf(t, frames) ==
    /\ stack[t] = <<>>
    /\ \E f \in frames :
         /\ stack' = [stack EXCEPT ![t] = <<f>>]
         /\ call' = [call EXCEPT ![t] = f]
    /\ calls' = calls + 1
    /\ returned' = [returned EXCEPT ![t] = Pending]
    /\ created' = [created EXCEPT ![t] = 0]
    /\ UNCHANGED <<session_state, processing, hasProcessing, request_cache, clock, overlap>>

\* the calls made on one adapter
MaxOperations == 1

\* the caller calls an operation of the adapter
Call(t) ==
    /\ calls < MaxOperations
    /\ CallOf(t, TopCalls)

\* time passes between two calls
Tick ==
    /\ stack[Main] = <<>>
    /\ calls \in 1..(MaxCalls - 1)
    /\ clock < MaxClock
    /\ clock' = clock + TickSeconds
    /\ UNCHANGED <<session_state, stack, returned, calls, processing, hasProcessing, request_cache,
                   call, overlap, created>>

\* the steps of the adapter's operations
AdapterNext(t) ==
    \/ MakeRequest(t)
    \/ Answer(t)
    \/ Wake(t)
    \/ CreateBooking_Check(t)
    \/ CreateBooking_Init(t)
    \/ CreateBooking_Add(t)
    \/ CreateBooking_Validate(t)
    \/ CreateBooking_V2(t)
    \/ CreateBooking_V1(t)
    \/ CreateBooking_Release(t)
    \/ CreateBooking_Remove(t)
    \/ GetEventTypes_V2(t)
    \/ GetEventTypes_V1(t)
    \/ GetAvailableSlots_V2(t)
    \/ GetAvailableSlots_V1(t)
    \/ GetBookings_V2(t)
    \/ GetBookings_V1(t)
    \/ Resolve_Entry(t)
    \/ Resolve_V2(t)
    \/ Resolve_V1(t)
    \/ Resolve_Scan(t)
    \/ Resolve_Scanned(t)
    \/ Cancel_Entry(t)
    \/ Cancel_V2(t)
    \/ Cancel_V1(t)
    \/ Reschedule_Entry(t)
    \/ Reschedule_V2(t)
    \/ Reschedule_Fallback(t)
    \/ Reschedule_Lookup(t)
    \/ Reschedule_Cancelled(t)
    \/ Reschedule_Created(t)

\* the steps of diagnose_slots_issue
DiagnoseNext(t) ==
    \/ Diagnose_Entry(t)
    \/ Diagnose_Types(t)
    \/ Diagnose_Simple(t)
    \/ Diagnose_Iso(t)
    \/ Diagnose_V1(t)

Next ==
    \/ Call(Main)
    \/ AdapterNext(Main)
    \/ DiagnoseNext(Main)

Spec == Init /\ [][Next]_vars

(***************************************************************************)
(* One caller listing and changing the bookings on one adapter: the calls   *)
(* follow one another, and time passes between them.                        *)
(***************************************************************************)
MutateCalls ==
    {GetBookingsFrame(None, None),
     CancelFrame(Uid11, None, PyStr(<<"Cancelled by user">>)),
     CancelFrame(None, BookingId11, PyStr(<<"Cancelled by user">>)),
     RescheduleFrame(Uid11, None, Iso2, PyStr(<<>>)),
     CreateBookingFrame(PyInt(5), Iso1, AnnEmail, Ann, PyStr(<<>>)),
     CreateBookingFrame(PyInt(5), Iso1, NoAtEmail, Ann, PyStr(<<>>))}

CallMutate(t) ==
    /\ calls < MaxCalls
    /\ CallOf(t, MutateCalls)

\* the backend answers the request of the top frame of t: a backend that
\* was down at the first attempt of a call stays down for the call, except
\* during a get_bookings call the caller makes itself
AnswerMutate(t) ==
    /\ stack[t] # <<>>
    /\ Top(t).r.kind = "sent"
    /\ Receive(t, IF Top(t).r.attempt = 0 \/ (Top(t).op = "get_bookings" /\ Len(stack[t]) = 1)
                  THEN OutcomesOf(t)
                  ELSE Again)

NextMutate ==
    \/ CallMutate(Main)
    \/ Tick
    \/ MakeRequest(Main)
    \/ AnswerMutate(Main)
    \/ Wake(Main)
    \/ CreateBooking_Check(Main)
    \/ CreateBooking_Init(Main)
    \/ CreateBooking_Add(Main)
    \/ CreateBooking_Validate(Main)
    \/ CreateBooking_V2(Main)
    \/ CreateBooking_V1(Main)
    \/ CreateBooking_Release(Main)
    \/ CreateBooking_Remove(Main)
    \/ GetBookings_V2(Main)
    \/ GetBookings_V1(Main)
    \/ Resolve_Entry(Main)
    \/ Resolve_V2(Main)
    \/ Resolve_V1(Main)
    \/ Resolve_Scan(Main)
    \/ Resolve_Scanned(Main)
    \/ Cancel_Entry(Main)
    \/ Cancel_V2(Main)
    \/ Cancel_V1(Main)
    \/ Reschedule_Entry(Main)
    \/ Reschedule_V2(Main)
    \/ Reschedule_Fallback(Main)
    \/ Reschedule_Lookup(Main)
    \/ Reschedule_Cancelled(Main)
    \/ Reschedule_Created(Main)

SpecMutate == Init /\ [][NextMutate]_vars

(***************************************************************************)
(* The adapter's requests on their own: two threads call                    *)
(* _make_request_with_retry on one adapter, and time passes between calls.  *)
(***************************************************************************)
\* what a requests.request call of these calls may do
RetryOutcomes ==
    {Resp(200, EmptyDict), Resp(404, NotJson), Resp(500, NotJson), TransportError}
RetryMethods == {"GET", "POST", "DELETE"}
RetryUrls == {V2 \o <<"/event-types">>, V2 \o <<"/bookings">>}
\* the values of max_retries the adapter passes
RetryLimits == {DiagnoseRetries, ReadRetries, CreateRetries}

\* a call with its arguments, the cache and the time it found, and what its
\* requests.request calls have met so far
RetryFrame(method, url, max_retries) ==
    [op |-> "_make_request_with_retry", pc |-> "request", method |-> method, url |-> url,
     params |-> <<>>, max_retries |-> max_retries, met |-> <<>>, served |-> FALSE,
     cache |-> request_cache, clock |-> clock, ret |-> None, r |-> NoRequest]

\* a caller calls _make_request_with_retry
Request(t) ==
    /\ stack[t] = <<>>
    /\ calls < MaxCalls
    /\ \E method \in RetryMethods, url \in RetryUrls, max_retries \in RetryLimits :
         /\ stack' = [stack EXCEPT ![t] = <<RetryFrame(method, url, max_retries)>>]
         /\ call' = [call EXCEPT ![t] = RetryFrame(method, url, max_retries)]
    /\ calls' = calls + 1
    /\ returned' = [returned EXCEPT ![t] = Pending]
    /\ created' = [created EXCEPT ![t] = 0]
    /\ UNCHANGED <<session_state, processing, hasProcessing, request_cache, clock, overlap>>

\* the backend answers the request of the call
AnswerRetry(t) ==
    /\ stack[t] # <<>>
    /\ Top(t).op = "_make_request_with_retry"
    /\ Receive(t, RetryOutcomes)

\* the call returns its response, or raises: the caller has how it ended
\* and what the requests of the call met
Request_Return(t) ==
    /\ AtPc(t, "_make_request_with_retry", "response")
    /\ LET f == Top(t) IN
       ReturnTo(t, [kind |-> f.r.kind, exc |-> f.r.exc, response |-> f.r.response,
                    requests |-> Len(f.met), met |-> f.met, served |-> f.served])
    /\ UNCHANGED <<session_state, calls, processing, hasProcessing, request_cache, clock, call,
                   overlap, created>>

\* time passes between two calls: to the last second of a cache entry's
\* lifetime, then second by second
Wait ==
    /\ \A t \in Threads : stack[t] = <<>>
    /\ calls > 0
    /\ clock < MaxClock
    /\ clock' = IF clock < CacheTTL - 1 THEN CacheTTL - 1 ELSE clock + 1
    /\ UNCHANGED <<session_state, stack, returned, calls, processing, hasProcessing, request_cache,
                   call, overlap, created>>

NextRetry ==
    \/ \E t \in Threads :
          \/ Request(t)
          \/ MakeRequest(t)
          \/ AnswerRetry(t)
          \/ Wake(t)
          \/ Request_Return(t)
    \/ Wait

SpecRetry == Init /\ [][NextRetry]_vars

(***************************************************************************)
(* execute_function                                                         *)
(***************************************************************************)
\* json.dumps(x): the text that serializes x; json.loads gives x back
Dumps(x) == [t |-> "json", v |-> x]
Loads(s) == s.v

Reverse(s) == [i \in 1..Len(s) |-> s[Len(s) + 1 - i]]
RECURSIVE LStrip(_)
LStrip(cs) == IF cs # <<>> /\ Head(cs) = " " THEN LStrip(Tail(cs)) ELSE cs
\* str.strip(): a blank is a chunk of its own
Strip(x) == PyStr(LStrip(Reverse(LStrip(Reverse(x.v)))))

\* lines 1849-1855: an event type as the get_event_types tool lists it
ListedEventType(et) ==
    PyDict([id |-> Get(et, "id"),
            title |-> Or(Get(et, "title"), Get(et, "name")),
            slug |-> GetD(et, "slug", PyStr(<<>>)),
            length |-> GetD(et, "length", PyStr(<<"N/A">>)),
            description |-> GetD(et, "description", PyStr(<<>>))])

\* lines 1832-1862: the answer of the get_event_types tool
ListedEventTypes(evt_resp) ==
    IF ~Truthy(Get(evt_resp, "success"))
    THEN PyDict([success |-> PyBool(FALSE),
                 error |-> PyStr(<<"Failed to fetch event types: ">>
                                 \o StrOf(Get(evt_resp, "error")).v)])
    ELSE LET event_types == GetD(evt_resp, "event_types", PyList(<<>>)) IN
         IF ~Truthy(event_types)
         THEN PyDict([success |-> PyBool(FALSE),
                      error |-> PyStr(<<"No event types configured">>),
                      message |-> PyStr(<<"Please create event types at https://app.cal.com/event-types">>)])
         ELSE PyDict([success |-> PyBool(TRUE),
                      event_types |-> PyList([i \in DOMAIN event_types.v |->
                                                 ListedEventType(event_types.v[i])]),
                      count |-> PyInt(Len(event_types.v)),
                      message |-> PyStr(<<"Found ">> \o Digits(Len(event_types.v))
                                        \o <<" available event types">>)])

\* the failures of the event types fetched for another tool: lines 1880-1894
\* (slots), 1955-1968 (create_booking_manual) and 2027-2040 (create_booking);
\* None if event types were fetched
TypesFailure(function_name, evt_resp) ==
    IF ~Truthy(Get(evt_resp, "success"))
    THEN PyDict([success |-> PyBool(FALSE),
                 error |-> PyStr(<<"Failed to fetch event types: ">>
                                 \o StrOf(Get(evt_resp, "error")).v),
                 user_message |->
                    IF function_name = "get_available_slots"
                    THEN PyStr(<<"I couldn't connect to your Cal.com account to fetch event types. Please check your API key or enter the event type ID manually in the sidebar.">>)
                    ELSE PyStr(<<"I couldn't connect to your Cal.com account. Try entering the event type ID manually in the sidebar.">>)])
    ELSE IF Truthy(GetD(evt_resp, "event_types", PyList(<<>>))) THEN None
    ELSE IF function_name = "get_available_slots"
    THEN PyDict([success |-> PyBool(FALSE),
                 error |-> PyStr(<<"No event types configured in Cal.com">>),
                 user_message |-> PyStr(<<"I can see you have an event type at cal.com/xin-tnkutt/interview, but the API can't access it. This usually means:\n\n1. Your API key doesn't have permission (try regenerating it)\n2. The event type is in a team workspace (use a personal API key)\n3. You can manually enter the event type ID in the sidebar instead.">>),
                 action_required |-> PyStr(<<"Check API key permissions or enter event type ID manually">>)])
    ELSE PyDict([success |-> PyBool(FALSE),
                 error |-> PyStr(<<"No event types available">>),
                 user_message |-> PyStr(<<"Can't auto-detect event types. Please enter your event type ID manually in the sidebar.">>)])

\* lines 1897 and 1971: the first event type with 'interview' in its slug
\* (in_title: or in its title), or None
RECURSIVE FirstInterview(_, _)
FirstInterview(event_types, in_title) ==
    IF event_types = <<>> THEN None
    ELSE LET et == Head(event_types) IN
         IF \/ IsInfix(PyStr(<<"interview">>), Lower(StrOf(GetD(et, "slug", PyStr(<<>>)))))
            \/ in_title /\ IsInfix(PyStr(<<"interview">>),
                                   Lower(StrOf(GetD(et, "title", PyStr(<<>>)))))
         THEN et
         ELSE FirstInterview(Tail(event_types), in_title)

\* lines 1898-1902 and 1972-1976: the id of that event type, or of the first
DefaultEventTypeId(event_types, in_title) ==
    IF Truthy(FirstInterview(event_types, in_title))
    THEN Get(FirstInterview(event_types, in_title), "id")
    ELSE Get(event_types[1], "id")

\* lines 2049-2050: .lower() is called on a title or slug that is no str
LowerRaises(et) ==
    \/ ~IsStr(Or(Or(Get(et, "title"), Get(et, "name")), PyStr(<<>>)))
    \/ ~IsStr(Or(Get(et, "slug"), PyStr(<<>>)))

\* lines 2049-2056: the event type matches the reason
Matches(reason_lower, et) ==
    LET title == Strip(Lower(Or(Or(Get(et, "title"), Get(et, "name")), PyStr(<<>>))))
        slug == Strip(Lower(Or(Get(et, "slug"), PyStr(<<>>))))
    IN  \/ reason_lower = title
        \/ reason_lower = slug
        \/ IsInfix(reason_lower, title)
        \/ IsInfix(title, reason_lower)

\* the loop of lines 2048-2059: the first event type that matches, or None
RECURSIVE FirstMatch(_, _)
FirstMatch(reason_lower, event_types) ==
    IF event_types = <<>> THEN None
    ELSE IF Matches(reason_lower, Head(event_types)) THEN Head(event_types)
    ELSE FirstMatch(reason_lower, Tail(event_types))

\* the loop of lines 2048-2059 reaches an event type whose title or slug is
\* no str before one that matches
RECURSIVE MatchRaises(_, _)
MatchRaises(reason_lower, event_types) ==
    /\ event_types # <<>>
    /\ \/ LowerRaises(Head(event_types))
       \/ /\ ~Matches(reason_lower, Head(event_types))
          /\ MatchRaises(reason_lower, Tail(event_types))

\* lines 2044-2059 raise AttributeError: the reason, or a title or slug the
\* loop reaches, has no lower()
MatchingRaises(meeting_reason, event_types) ==
    /\ Truthy(meeting_reason)
    /\ \/ ~IsStr(meeting_reason)
       \/ MatchRaises(Strip(Lower(meeting_reason)), event_types)

\* a dispatcher that books the first event type when none matches
MatchedOrFirst(meeting_reason, event_types) ==
    IF Truthy(meeting_reason)
          /\ Truthy(FirstMatch(Strip(Lower(meeting_reason)), event_types))
    THEN FirstMatch(Strip(Lower(meeting_reason)), event_types)
    ELSE event_types[1]

\* lines 2043-2059: matched_et
MatchedEventType(meeting_reason, event_types) ==
    IF Truthy(meeting_reason) THEN FirstMatch(Strip(Lower(meeting_reason)), event_types)
    ELSE None

\* lines 2067-2082: the answer when no event type matches
NoMatchingEventType(meeting_reason, event_types) ==
    PyDict([success |-> PyBool(FALSE),
            error |-> PyStr(<<"no_matching_event_type">>),
            available_event_types |->
                PyList([i \in DOMAIN event_types |->
                    PyDict([id |-> Get(event_types[i], "id"),
                            title |-> Or(Get(event_types[i], "title"), Get(event_types[i], "name")),
                            slug |-> Get(event_types[i], "slug"),
                            length |-> PyStr(StrOf(GetD(event_types[i], "length", PyStr(<<"N/A">>))).v
                                             \o <<" min">>)])]),
            user_message |-> PyStr(<<"I couldn't find an event type matching '">>
                                   \o StrOf(meeting_reason).v
                                   \o <<"'. Here are your available event types. Please specify which one you'd like to book.">>),
            action_required |-> PyStr(<<"user_must_choose_event_type">>)])

\* the times of day strptime("%H:%M") reads, as UTC (UTC-7)
ManualClock(time) ==
    CASE time = "10:00" -> "17:00:00Z"
      [] time = "11:00" -> "18:00:00Z"
      [] OTHER -> ""

\* lines 1981-1985: the UTC instant of a local date and time, or None if
\* strptime("%Y-%m-%d %H:%M") raises
ManualStart(date, time) ==
    IF /\ IsStr(date) /\ IsStr(time) /\ Len(date.v) = 1 /\ Len(time.v) = 1
       /\ date.v[1] \in Dates /\ ManualClock(time.v[1]) # ""
    THEN PyStr(<<CHOOSE c \in {"2025-03-10T17:00:00Z", "2025-03-10T18:00:00Z",
                              "2025-03-11T17:00:00Z", "2025-03-11T18:00:00Z",
                              "2025-03-12T17:00:00Z", "2025-03-12T18:00:00Z",
                              "2025-03-13T17:00:00Z", "2025-03-13T18:00:00Z"} :
                     InstantParts(c) = <<date.v[1], ManualClock(time.v[1])>>>>)
    ELSE None

\* line 1996
ConvertTimeFailure ==
    PyDict([success |-> PyBool(FALSE),
            error |-> PyStr(<<"Failed to convert time: ", "ValueError">>)])
\* line 2009: the handler of the exceptions of the create_booking_manual branch
ParseTimeFailure(exc) ==
    PyDict([success |-> PyBool(FALSE), error |-> PyStr(<<"Failed to parse time: ">> \o exc)])

\* lines 1915-1933: the answer of the get_available_slots tool
SlotsAnswer(result, event_type_id, date) ==
    IF Truthy(Get(result, "success"))
    THEN LET slots == GetD(result, "slots", PyList(<<>>)).v
             first == SubSeq(slots, 1, IF Len(slots) < 10 THEN Len(slots) ELSE 10)
         IN  PyDict([success |-> PyBool(TRUE),
                     available_slots |-> PyList([i \in DOMAIN first |-> format_time_pst(first[i])]),
                     raw_slots |-> PyList(first),
                     event_type_id |-> event_type_id,
                     message |-> PyStr(<<"Found ">> \o Digits(Len(slots))
                                       \o <<" available slots for ">> \o date.v
                                       \o <<" (PST/PDT)">>)])
    ELSE PyDict([success |-> PyBool(FALSE),
                 error |-> Get(result, "error"),
                 event_type_id |-> event_type_id,
                 message |-> PyStr(<<"Could not fetch slots. You can try manual booking with create_booking_manual instead.">>),
                 suggestion |-> GetD(result, "suggestion", PyStr(<<>>))])

\* an answer that raises instead
UnknownFunctionRaised == Raise("KeyError")

\* line 2119
UnknownFunction ==
    Dumps(PyDict([success |-> PyBool(FALSE), error |-> PyStr(<<"Unknown function">>)]))

ExecuteFrame(function_name, arguments) ==
    [op |-> "execute_function", pc |-> "entry", function_name |-> function_name,
     arguments |-> arguments, event_type_id |-> None, ret |-> None, r |-> NoRequest]

\* the top frame of t calls an operation of the adapter
Calls(t, caller, callee) ==
    /\ stack' = Push(t, caller, callee)
    /\ UNCHANGED returned

\* the adapter call of a tool that needs an event type, the event type known:
\* lines 1905-1913 (slots), 1979-2006 (create_booking_manual), 2084-2092
\* (create_booking)
Execute_Call(t, f, event_type_id) ==
    LET arguments == f.arguments
        date == Get(arguments, "date")
        start_time == ManualStart(date, Get(arguments, "time"))
        meeting_reason == GetD(arguments, "meeting_reason", PyStr(<<>>))
    IN  CASE f.function_name = "get_available_slots" ->
                IF StrptimeError(date) # "" THEN ReturnTo(t, Raise(StrptimeError(date)))
                ELSE Calls(t, [f EXCEPT !.pc = "slots", !.event_type_id = event_type_id],
                           GetAvailableSlotsFrame(event_type_id, DayStartUtc(date), DayEndUtc(date)))
          [] f.function_name = "create_booking_manual" ->
                IF start_time = None THEN ReturnTo(t, Dumps(ConvertTimeFailure))
                ELSE IF ~Has(arguments, "attendee_email")
                THEN ReturnTo(t, Dumps(ParseTimeFailure(<<"'attendee_email'">>)))
                ELSE IF ~Has(arguments, "attendee_name")
                THEN ReturnTo(t, Dumps(ParseTimeFailure(<<"'attendee_name'">>)))
                ELSE Calls(t, [f EXCEPT !.pc = "manual", !.event_type_id = event_type_id],
                           CreateBookingFrame(event_type_id, start_time,
                                              Get(arguments, "attendee_email"),
                                              Get(arguments, "attendee_name"), meeting_reason))
          [] OTHER ->
                IF \E k \in {"start_time", "attendee_email", "attendee_name"} : ~Has(arguments, k)
                THEN ReturnTo(t, Raise("KeyError"))
                ELSE Calls(t, [f EXCEPT !.pc = "dumps", !.event_type_id = event_type_id],
                           CreateBookingFrame(event_type_id, Get(arguments, "start_time"),
                                              Get(arguments, "attendee_email"),
                                              Get(arguments, "attendee_name"), meeting_reason))

\* a dispatcher that prefers the id entered in the sidebar to the argument
Execute_EntryManualFirst(t) ==
    /\ AtPc(t, "execute_function", "entry")
    /\ LET f == Top(t)
           arguments == f.arguments
           event_type_id == Or(session_state.manual_event_id, Get(arguments, "event_type_id"))
       IN  CASE f.function_name = "get_event_types" ->
                   Calls(t, [f EXCEPT !.pc = "listed"], GetEventTypesFrame)
             [] f.function_name \in {"get_available_slots", "create_booking_manual", "create_booking"} ->
                   IF Truthy(event_type_id) THEN Execute_Call(t, f, event_type_id)
                   ELSE Calls(t, [f EXCEPT !.pc = "types"], GetEventTypesFrame)
             [] f.function_name = "get_bookings" ->
                   Calls(t, [f EXCEPT !.pc = "dumps"],
                         GetBookingsFrame(Get(arguments, "attendee_email"),
                                          Get(arguments, "attendee_name")))
             [] f.function_name = "cancel_booking" ->
                   Calls(t, [f EXCEPT !.pc = "dumps"],
                         CancelFrame(Get(arguments, "booking_uid"), Get(arguments, "booking_id"),
                                     GetD(arguments, "reason", PyStr(<<"Cancelled by user">>))))
             [] f.function_name = "reschedule_booking" ->
                   IF ~Has(arguments, "new_start_time") THEN ReturnTo(t, Raise("KeyError"))
                   ELSE Calls(t, [f EXCEPT !.pc = "dumps"],
                              RescheduleFrame(Get(arguments, "booking_uid"),
                                              Get(arguments, "booking_id"),
                                              Get(arguments, "new_start_time"),
                                              GetD(arguments, "reason", PyStr(<<>>))))
             [] OTHER -> ReturnTo(t, UnknownFunction)
    /\ UNCHANGED <<session_state, calls, processing, hasProcessing, request_cache, clock, call, overlap, created>>

\* lines 1828-2119 up to the first call of the adapter
Execute_Entry(t) ==
    /\ AtPc(t, "execute_function", "entry")
    /\ LET f == Top(t)
           arguments == f.arguments
           event_type_id == Or(Get(arguments, "event_type_id"), session_state.manual_event_id)
       IN  CASE f.function_name = "get_event_types" ->
                   Calls(t, [f EXCEPT !.pc = "listed"], GetEventTypesFrame)
             [] f.function_name \in {"get_available_slots", "create_booking_manual", "create_booking"} ->
                   IF Truthy(event_type_id) THEN Execute_Call(t, f, event_type_id)
                   ELSE Calls(t, [f EXCEPT !.pc = "types"], GetEventTypesFrame)
             [] f.function_name = "get_bookings" ->
                   Calls(t, [f EXCEPT !.pc = "dumps"],
                         GetBookingsFrame(Get(arguments, "attendee_email"),
                                          Get(arguments, "attendee_name")))
             [] f.function_name = "cancel_booking" ->
                   Calls(t, [f EXCEPT !.pc = "dumps"],
                         CancelFrame(Get(arguments, "booking_uid"), Get(arguments, "booking_id"),
                                     GetD(arguments, "reason", PyStr(<<"Cancelled by user">>))))
             [] f.function_name = "reschedule_booking" ->
                   IF ~Has(arguments, "new_start_time") THEN ReturnTo(t, Raise("KeyError"))
                   ELSE Calls(t, [f EXCEPT !.pc = "dumps"],
                              RescheduleFrame(Get(arguments, "booking_uid"),
                                              Get(arguments, "booking_id"),
                                              Get(arguments, "new_start_time"),
                                              GetD(arguments, "reason", PyStr(<<>>))))
             [] OTHER -> ReturnTo(t, UnknownFunction)
    /\ UNCHANGED <<session_state, calls, processing, hasProcessing, request_cache, clock, call, overlap, created>>

\* lines 1832-1862: get_event_types returned to the get_event_types tool
Execute_Listed(t) ==
    /\ AtPc(t, "execute_function", "listed")
    /\ IF IsRaise(Top(t).ret) THEN ReturnTo(t, Top(t).ret)
       ELSE ReturnTo(t, Dumps(ListedEventTypes(Top(t).ret)))
    /\ UNCHANGED <<session_state, calls, processing, hasProcessing, request_cache, clock, call, overlap, created>>

\* get_event_types returned to a tool that needs an event type: lines
\* 1880-1903, 1955-1977, 2027-2082
Execute_Types(t) ==
    /\ AtPc(t, "execute_function", "types")
    /\ LET f == Top(t)
           evt_resp == f.ret
           event_types == Get(evt_resp, "event_types").v
           meeting_reason == GetD(f.arguments, "meeting_reason", PyStr(<<>>))
           matched_et == MatchedEventType(meeting_reason, event_types)
       IN  IF IsRaise(evt_resp)
           THEN IF f.function_name = "create_booking_manual"
                THEN ReturnTo(t, Dumps(ParseTimeFailure(evt_resp.v)))
                ELSE ReturnTo(t, evt_resp)
           ELSE IF TypesFailure(f.function_name, evt_resp) # None
           THEN ReturnTo(t, Dumps(TypesFailure(f.function_name, evt_resp)))
           ELSE IF f.function_name # "create_booking"
           THEN Execute_Call(t, f, DefaultEventTypeId(event_types,
                                                      f.function_name = "get_available_slots"))
           ELSE IF MatchingRaises(meeting_reason, event_types)
           THEN ReturnTo(t, Raise("AttributeError"))
           ELSE IF Truthy(matched_et) THEN Execute_Call(t, f, Get(matched_et, "id"))
           ELSE ReturnTo(t, Dumps(NoMatchingEventType(meeting_reason, event_types)))
    /\ UNCHANGED <<session_state, calls, processing, hasProcessing, request_cache, clock, call, overlap, created>>

\* lines 1915-1933: get_available_slots returned
Execute_Slots(t) ==
    /\ AtPc(t, "execute_function", "slots")
    /\ LET f == Top(t) IN
       IF IsRaise(f.ret) THEN ReturnTo(t, f.ret)
       ELSE ReturnTo(t, Dumps(SlotsAnswer(f.ret, f.event_type_id, Get(f.arguments, "date"))))
    /\ UNCHANGED <<session_state, calls, processing, hasProcessing, request_cache, clock, call, overlap, created>>

\* lines 2007-2009: create_booking returned to create_booking_manual
Execute_Manual(t) ==
    /\ AtPc(t, "execute_function", "manual")
    /\ IF IsRaise(Top(t).ret) THEN ReturnTo(t, Dumps(ParseTimeFailure(Top(t).ret.v)))
       ELSE ReturnTo(t, Dumps(Top(t).ret))
    /\ UNCHANGED <<session_state, calls, processing, hasProcessing, request_cache, clock, call, overlap, created>>

\* lines 2093, 2100, 2108, 2117: json.dumps(result)
Execute_Dumps(t) ==
    /\ AtPc(t, "execute_function", "dumps")
    /\ IF IsRaise(Top(t).ret) THEN ReturnTo(t, Top(t).ret)
       ELSE ReturnTo(t, Dumps(Top(t).ret))
    /\ UNCHANGED <<session_state, calls, processing, hasProcessing, request_cache, clock, call, overlap, created>>

(***************************************************************************)
(* The dispatcher on its own: a tool call is executed on a fresh adapter,   *)
(* with or without an event type id entered in the sidebar.                 *)
(***************************************************************************)
\* tool calls dispatched in a behaviour
MaxDispatches == 1

Date1 == PyStr(<<"2025-03-10">>)
Five == PyInt(5)

\* the tool calls the dispatcher is given: (function_name, arguments)
DispatchCalls ==
    {<<"get_event_types", EmptyDict>>,
     <<"get_available_slots", PyDict([date |-> Date1, event_type_id |-> Five])>>,
     <<"get_available_slots", PyDict([date |-> Date1])>>,
     <<"get_available_slots", PyDict([event_type_id |-> Five])>>,
     <<"get_available_slots", PyDict([date |-> PyStr(<<"03/10/2025">>), event_type_id |-> Five])>>,
     <<"create_booking_manual",
       PyDict([date |-> Date1, time |-> PyStr(<<"10:00">>), attendee_email |-> AnnEmail,
               attendee_name |-> Ann])>>,
     <<"create_booking_manual",
       PyDict([date |-> Date1, time |-> PyStr(<<"10:00">>), attendee_name |-> Ann,
               event_type_id |-> Five])>>,
     <<"create_booking_manual",
       PyDict([date |-> Date1, time |-> PyStr(<<"10am">>), attendee_email |-> AnnEmail,
               attendee_name |-> Ann, event_type_id |-> Five])>>,
     <<"create_booking",
       PyDict([event_type_id |-> Five, start_time |-> Iso1, attendee_email |-> AnnEmail,
               attendee_name |-> Ann])>>,
     <<"create_booking",
       PyDict([event_type_id |-> Five, attendee_email |-> AnnEmail, attendee_name |-> Ann])>>,
     <<"create_booking",
       PyDict([event_type_id |-> Five, start_time |-> Iso1, attendee_name |-> Ann])>>,
     <<"create_booking",
       PyDict([start_time |-> Iso1, attendee_email |-> AnnEmail, attendee_name |-> Ann,
               meeting_reason |-> PyStr(<<"interview">>)])>>,
     <<"create_booking",
       PyDict([start_time |-> Iso1, attendee_email |-> AnnEmail, attendee_name |-> Ann,
               meeting_reason |-> PyStr(<<"lunch">>)])>>,
     <<"get_bookings", EmptyDict>>,
     <<"cancel_booking", PyDict([booking_id |-> BookingId11])>>,
     <<"reschedule_booking", PyDict([booking_uid |-> Uid11, new_start_time |-> Iso2])>>,
     <<"reschedule_booking", PyDict([booking_uid |-> Uid11])>>,
     <<"send_email", EmptyDict>>}

\* execute_function is called with a tool call
Dispatch(t) ==
    /\ stack[t] = <<>>
    /\ calls < MaxDispatches
    /\ \E c \in DispatchCalls :
         /\ stack' = [stack EXCEPT ![t] = <<ExecuteFrame(c[1], c[2])>>]
         /\ call' = [call EXCEPT ![t] = ExecuteFrame(c[1], c[2])]
    /\ calls' = calls + 1
    /\ returned' = [returned EXCEPT ![t] = Pending]
    /\ created' = [created EXCEPT ![t] = 0]
    /\ UNCHANGED <<session_state, processing, hasProcessing, request_cache, clock, overlap>>

\* lines 2405-2415: an event type id is entered in the sidebar
SetManualEventId ==
    /\ calls = 0
    /\ session_state.manual_event_id = None
    /\ session_state' = [session_state EXCEPT !.manual_event_id = Five]
    /\ UNCHANGED <<stack, returned, calls, processing, hasProcessing, request_cache, clock,
                   call, overlap, created>>

\* the steps of execute_function
ExecuteNext(t) ==
    \/ Execute_Entry(t)
    \/ Execute_Listed(t)
    \/ Execute_Types(t)
    \/ Execute_Slots(t)
    \/ Execute_Manual(t)
    \/ Execute_Dumps(t)

NextDispatch ==
    \/ Dispatch(Main)
    \/ SetManualEventId
    \/ ExecuteNext(Main)
    \/ AdapterNext(Main)

SpecDispatch == Init /\ [][NextDispatch]_vars

(***************************************************************************)
(* chat_with_assistant and the turn of main that calls it                   *)
(***************************************************************************)
\* Python: a tuple
PyTuple(s) == [t |-> "tuple", v |-> s]

\* line 2127: the text of _build_runtime_date_context()
RuntimeContext == <<"runtime date context">>

\* lines 2128-2140 and 2185-2197: the messages sent to the model, from the
\* i-th on; inserted says whether the context has been added to a system
\* message
RECURSIVE EnrichFrom(_, _, _)
EnrichFrom(messages, i, inserted) ==
    IF i > Len(messages) THEN <<>>
    ELSE IF ~inserted /\ Get(messages[i], "role") = PyStr(<<"system">>)
    THEN <<PyDict([role |-> PyStr(<<"system">>),
                   content |-> PyStr(Or(Get(messages[i], "content"), PyStr(<<>>)).v
                                     \o <<"\n\n">> \o RuntimeContext)])>>
         \o EnrichFrom(messages, i + 1, TRUE)
    ELSE <<messages[i]>> \o EnrichFrom(messages, i + 1, inserted)

\* messages sent without a context when the transcript has no system message
EnrichedNoInsert(messages) ==
    IF \E i \in DOMAIN messages : Get(messages[i], "role") = PyStr(<<"system">>)
    THEN EnrichFrom(messages, 1, FALSE)
    ELSE messages

Enriched(messages) ==
    IF \E i \in DOMAIN messages : Get(messages[i], "role") = PyStr(<<"system">>)
    THEN EnrichFrom(messages, 1, FALSE)
    ELSE <<PyDict([role |-> PyStr(<<"system">>), content |-> PyStr(RuntimeContext)])>>
         \o messages

\* a tool call of a model response: tool_call.id, .function.name and
\* .function.arguments (a JSON text, or a text that is no JSON)
ToolCall(id, name, arguments) == [id |-> id, name |-> name, arguments |-> arguments]

\* the tool calls the model requests
GetEventTypesCall == ToolCall("call_1", "get_event_types", Dumps(EmptyDict))
ModelToolCalls ==
    {GetEventTypesCall,
     ToolCall("call_2", "send_email", Dumps(EmptyDict)),
     ToolCall("call_3", "create_booking",
              Dumps(PyDict([event_type_id |-> PyInt(5), attendee_email |-> AnnEmail,
                            attendee_name |-> Ann]))),
     ToolCall("call_4", "get_event_types", NotJson),
     ToolCall("call_5", "get_event_types", None)}

\* line 2155: json.loads(tool_call.function.arguments or "{}")
ArgumentsOf(tool_call) ==
    IF Truthy(tool_call.arguments) THEN Loads(tool_call.arguments) ELSE EmptyDict

\* the messages of the model: content and tool_calls
ModelMessage(content, tool_calls) == [content |-> content, tool_calls |-> tool_calls]
\* what the model answers when tools are offered
FirstReplies ==
    {ModelMessage(PyStr(<<"Hello">>), <<>>)}
    \cup {ModelMessage(None, <<c>>) : c \in ModelToolCalls}
    \cup {ModelMessage(None, <<c, GetEventTypesCall>>) : c \in ModelToolCalls}
\* what it answers when none are
SecondReplies == {ModelMessage(PyStr(<<"Done">>), <<>>), ModelMessage(None, <<>>)}

\* lines 2161-2172: the assistant message that carries the tool call
AssistantToolMessage(assistant_message, tool_call) ==
    PyDict([role |-> PyStr(<<"assistant">>),
            content |-> assistant_message.content,
            tool_calls |-> PyList(<<PyDict([id |-> PyStr(<<tool_call.id>>),
                                            type |-> PyStr(<<"function">>),
                                            function |-> PyDict([name |-> PyStr(<<tool_call.name>>),
                                                                 arguments |-> tool_call.arguments])])>>)])

\* lines 2175-2180: the tool message that carries the result
ToolMessage(tool_call, function_response) ==
    PyDict([role |-> PyStr(<<"tool">>),
            tool_call_id |-> PyStr(<<tool_call.id>>),
            name |-> PyStr(<<tool_call.name>>),
            content |-> function_response])

\* a frame of chat_with_assistant; model_calls lists the calls of
\* client.chat.completions.create it has made (tools offered, messages sent,
\* reply), dispatched the calls of execute_function
ChatFrame(messages) ==
    [op |-> "chat_with_assistant", pc |-> "entry", messages |-> messages,
     model_calls |-> <<>>, dispatched |-> <<>>, ret |-> None, r |-> NoRequest]

\* lines 2127-2149: the first call of the model, with the tools
Chat_Entry(t) ==
    /\ AtPc(t, "chat_with_assistant", "entry")
    /\ \E reply \in FirstReplies :
         stack' = SetTop(t, [Top(t) EXCEPT
                     !.pc = "first_response",
                     !.model_calls = Append(@, [tools |-> TRUE,
                                                messages |-> Enriched(Top(t).messages),
                                                reply |-> reply])])
    /\ UNCHANGED <<session_state, returned, calls, processing, hasProcessing, request_cache,
                   clock, call, overlap, created>>

\* a turn that appends the assistant's tool-call message before the dispatch
Chat_FirstAppendsEarly(t) ==
    /\ AtPc(t, "chat_with_assistant", "first_response")
    /\ LET f == Top(t)
           assistant_message == f.model_calls[1].reply
           tool_call == assistant_message.tool_calls[1]
       IN  IF assistant_message.tool_calls = <<>>
           THEN ReturnTo(t, PyTuple(<<assistant_message.content, PyList(f.messages)>>))
           ELSE IF tool_call.arguments = NotJson
           THEN ReturnTo(t, Raise("JSONDecodeError"))
           ELSE Calls(t, [f EXCEPT !.pc = "executed",
                                   !.messages = Append(@, AssistantToolMessage(assistant_message,
                                                                              tool_call)),
                                   !.dispatched = Append(@, <<tool_call.name,
                                                              ArgumentsOf(tool_call)>>)],
                      ExecuteFrame(tool_call.name, ArgumentsOf(tool_call)))
    /\ UNCHANGED <<session_state, calls, processing, hasProcessing, request_cache, clock,
                   call, overlap, created>>

\* lines 2149-2158 and 2206-2207: a direct reply is returned; of the tool
\* calls the first is dispatched (json.loads raises on arguments that are no
\* JSON)
Chat_First(t) ==
    /\ AtPc(t, "chat_with_assistant", "first_response")
    /\ LET f == Top(t)
           assistant_message == f.model_calls[1].reply
           tool_call == assistant_message.tool_calls[1]
       IN  IF assistant_message.tool_calls = <<>>
           THEN ReturnTo(t, PyTuple(<<assistant_message.content, PyList(f.messages)>>))
           ELSE IF tool_call.arguments = NotJson
           THEN ReturnTo(t, Raise("JSONDecodeError"))
           ELSE Calls(t, [f EXCEPT !.pc = "executed",
                                   !.dispatched = Append(@, <<tool_call.name,
                                                              ArgumentsOf(tool_call)>>)],
                      ExecuteFrame(tool_call.name, ArgumentsOf(tool_call)))
    /\ UNCHANGED <<session_state, calls, processing, hasProcessing, request_cache, clock,
                   call, overlap, created>>

\* lines 2158-2202: execute_function returned (an exception it raised goes
\* on to the caller); the two messages are appended and the model is called
\* again, without tools
Chat_Executed(t) ==
    /\ AtPc(t, "chat_with_assistant", "executed")
    /\ LET f == Top(t)
           assistant_message == f.model_calls[1].reply
           tool_call == assistant_message.tool_calls[1]
           messages == f.messages \o <<AssistantToolMessage(assistant_message, tool_call),
                                       ToolMessage(tool_call, f.ret)>>
       IN  IF IsRaise(f.ret) THEN ReturnTo(t, f.ret)
           ELSE /\ \E reply \in SecondReplies :
                     stack' = SetTop(t, [f EXCEPT
                                 !.pc = "second_response",
                                 !.messages = messages,
                                 !.model_calls = Append(@, [tools |-> FALSE,
                                                            messages |-> Enriched(messages),
                                                            reply |-> reply])])
                /\ UNCHANGED returned
    /\ UNCHANGED <<session_state, calls, processing, hasProcessing, request_cache, clock,
                   call, overlap, created>>

\* line 2204
Chat_Second(t) ==
    /\ AtPc(t, "chat_with_assistant", "second_response")
    /\ ReturnTo(t, PyTuple(<<Top(t).model_calls[2].reply.content, PyList(Top(t).messages)>>))
    /\ UNCHANGED <<session_state, calls, processing, hasProcessing, request_cache, clock,
                   call, overlap, created>>

\* the turns of a session
MaxTurns == 2

MainFrame(prompt) == [op |-> "main", pc |-> "replied", prompt |-> prompt, ret |-> None,
                      r |-> NoRequest]

\* lines 2491-2520: a run of the script.  It builds a new adapter (line
\* 2491; its request_cache is empty, line 159, and it has no
\* _processing_bookings); the user's prompt is appended to the transcript
\* and chat_with_assistant is called with a copy of the transcript and the
\* new adapter
Main_Prompt(t) ==
    /\ stack[t] = <<>>
    /\ calls < MaxTurns
    /\ LET prompt == PyStr(<<"hi">>)
           messages == Append(session_state.messages,
                              PyDict([role |-> PyStr(<<"user">>), content |-> prompt]))
       IN  /\ session_state' = [session_state EXCEPT !.messages = messages]
           /\ stack' = [stack EXCEPT ![t] = <<MainFrame(prompt), ChatFrame(messages)>>]
           /\ call' = [call EXCEPT ![t] = MainFrame(prompt)]
    /\ request_cache' = <<>>
    /\ processing' = {}
    /\ hasProcessing' = FALSE
    /\ calls' = calls + 1
    /\ returned' = [returned EXCEPT ![t] = Pending]
    /\ created' = [created EXCEPT ![t] = 0]
    /\ UNCHANGED <<clock, overlap>>

\* lines 2520-2533: the reply, or the text of the exception, is appended to
\* the transcript as an assistant message; the messages chat_with_assistant
\* returned are dropped
Main_Replied(t) ==
    /\ AtPc(t, "main", "replied")
    /\ LET f == Top(t)
           response_text == IF IsRaise(f.ret) THEN PyStr(<<"Error: ">> \o f.ret.v)
                            ELSE f.ret.v[1]
       IN  /\ session_state' = [session_state EXCEPT
                 !.messages = Append(@, PyDict([role |-> PyStr(<<"assistant">>),
                                                content |-> response_text]))]
           /\ ReturnTo(t, None)
    /\ UNCHANGED <<calls, processing, hasProcessing, request_cache, clock, call, overlap, created>>

\* lines 2439-2441: the Clear Chat History button empties the transcript
Main_ClearChat ==
    /\ stack[Main] = <<>>
    /\ session_state.messages # <<>>
    /\ session_state' = [session_state EXCEPT !.messages = <<>>]
    /\ UNCHANGED <<stack, returned, calls, processing, hasProcessing, request_cache, clock,
                   call, overlap, created>>

NextChat ==
    \/ Main_Prompt(Main)
    \/ Main_ClearChat
    \/ Main_Replied(Main)
    \/ Chat_Entry(Main)
    \/ Chat_First(Main)
    \/ Chat_Executed(Main)
    \/ Chat_Second(Main)
    \/ Execute_Entry(Main)
    \/ Execute_Listed(Main)
    \/ GetEventTypes_V2(Main)
    \/ GetEventTypes_V1(Main)
    \/ MakeRequest(Main)
    \/ Answer(Main)
    \/ Wake(Main)

SpecChat == Init /\ [][NextChat]_vars

(***************************************************************************)
(* get_available_slots answered with the same instants by either API.       *)
(***************************************************************************)
MaxDays == 2
MaxPerDay == 2
SlotInstants == {SlotA, SlotB}
\* the instants of each date of an answer, in response order
SlotDays ==
    UNION {[1..n -> UNION {[1..m -> SlotInstants] : m \in 0..MaxPerDay}] : n \in 0..MaxDays}
DateKey(i) ==
    CASE i = 1 -> "2025-03-10"
      [] i = 2 -> "2025-03-11"
      [] i = 3 -> "2025-03-12"
      [] OTHER -> "2025-03-13"
\* {<date>: [{key: instant}, ...], ...}
DaysDict(days, key) ==
    ODict([i \in 1..Len(days) |-> DateKey(i)],
          [d \in {DateKey(i) : i \in 1..Len(days)} |->
              LET day == days[CHOOSE i \in 1..Len(days) : DateKey(i) = d]
              IN  PyList([j \in 1..Len(day) |-> ODict(<<key>>, [k \in {key} |-> day[j]])])])
\* the v2 answer, with and without its status, and the v1 answer
V2Body(days) ==
    ODict(<<"status", "data">>, [status |-> PyStr(<<"success">>), data |-> DaysDict(days, "start")])
V2BareBody(days) == ODict(<<"data">>, [data |-> DaysDict(days, "start")])
V1Body(days) == ODict(<<"slots">>, [slots |-> DaysDict(days, "time")])

CallSlots(t) ==
    /\ stack[t] = <<>>
    /\ calls < MaxCalls
    /\ LET f == GetAvailableSlotsFrame(PyInt(5), PyStr(<<"2025-03-10">>), PyStr(<<"2025-03-11">>))
       IN  /\ stack' = [stack EXCEPT ![t] = <<f>>]
           /\ call' = [call EXCEPT ![t] = f]
    /\ calls' = calls + 1
    /\ returned' = [returned EXCEPT ![t] = Pending]
    /\ created' = [created EXCEPT ![t] = 0]
    /\ UNCHANGED <<session_state, processing, hasProcessing, request_cache, clock, overlap>>

\* what the slots request at pc meets: v2 answers 200 with the days under
\* data, or 500; v1 answers 200 with the days under slots
SlotOutcomes(pc) ==
    UNION {IF pc = "v2"
           THEN {Resp(200, V2Body(days)), Resp(200, V2BareBody(days)), Resp(500, None)}
           ELSE {Resp(200, V1Body(days))} : days \in SlotDays}

\* the backend answers the slots request of the top frame of t
AnswerSlots(t) ==
    /\ stack[t] # <<>>
    /\ Top(t).op = "get_available_slots"
    /\ Receive(t, SlotOutcomes(Top(t).pc))

NextSlots ==
    \/ CallSlots(Main)
    \/ Tick
    \/ MakeRequest(Main)
    \/ AnswerSlots(Main)
    \/ Wake(Main)
    \/ GetAvailableSlots_V2(Main)
    \/ GetAvailableSlots_V1(Main)

SpecSlots == Init /\ [][NextSlots]_vars

(***************************************************************************)
(* get_bookings called with and without its two filters.                    *)
(***************************************************************************)
BobEmail == PyStr(<<"b", "@", "x">>)
FilterEmails == {None, AnnEmail, BobEmail}
FilterNames == {None, PyStr(<<"n", "n">>), PyStr(<<"b", "o", "b">>)}

CallBookings(t) ==
    /\ stack[t] = <<>>
    /\ calls < MaxCalls
    /\ \E attendee_email \in FilterEmails, attendee_name \in FilterNames :
         LET f == GetBookingsFrame(attendee_email, attendee_name)
         IN  /\ stack' = [stack EXCEPT ![t] = <<f>>]
             /\ call' = [call EXCEPT ![t] = f]
    /\ calls' = calls + 1
    /\ returned' = [returned EXCEPT ![t] = Pending]
    /\ created' = [created EXCEPT ![t] = 0]
    /\ UNCHANGED <<session_state, processing, hasProcessing, request_cache, clock, overlap>>

NextBookings ==
    \/ CallBookings(Main)
    \/ MakeRequest(Main)
    \/ Answer(Main)
    \/ Wake(Main)
    \/ GetBookings_V2(Main)
    \/ GetBookings_V1(Main)

SpecBookings == Init /\ [][NextBookings]_vars

(***************************************************************************)
(* create_booking refused by the backend with each status and body.         *)
(***************************************************************************)
FailStatuses == {400, 409, 422, 429, 500, 503}
ErrorBodies ==
    {NotJson,
     EmptyDict,
     ODict(<<"message">>, [message |-> PyStr(<<"no availability">>)]),
     ODict(<<"errors">>, [errors |-> PyList(<<PyStr(<<"bad start">>)>>)]),
     ODict(<<"data">>, [data |-> ODict(<<"error">>, [error |-> PyStr(<<"slot taken">>)])])}

CallCreate(t) ==
    /\ stack[t] = <<>>
    /\ calls < MaxCalls
    /\ LET f == CreateBookingFrame(PyInt(5), Iso1, AnnEmail, Ann, PyStr(<<>>))
       IN  /\ stack' = [stack EXCEPT ![t] = <<f>>]
           /\ call' = [call EXCEPT ![t] = f]
           /\ overlap' = [overlap EXCEPT ![t] = {}]
    /\ calls' = calls + 1
    /\ returned' = [returned EXCEPT ![t] = Pending]
    /\ created' = [created EXCEPT ![t] = 0]
    /\ UNCHANGED <<session_state, processing, hasProcessing, request_cache, clock>>

\* an attempt the backend processes without the client learning of it: the
\* answer is lost (timeout, connection reset), or it is a 5xx
LostResponse == [kind |-> "exc", status |-> 0, body |-> None, effect |-> TRUE]
ProcessedThen500 == [kind |-> "resp", status |-> 500, body |-> NotJson, effect |-> TRUE]
\* what a booking POST meets: a refusal, a 200 with the created booking, an
\* attempt processed without a usable answer, or a transport error before
\* the backend is reached
CreateOutcomes ==
    {Resp(status, b) : status \in FailStatuses, b \in ErrorBodies}
    \cup {Resp(200, CreatedBooking), LostResponse, ProcessedThen500, TransportError}

\* the backend answers the booking POST of the top frame of t
AnswerCreate(t) ==
    /\ stack[t] # <<>>
    /\ Top(t).op = "create_booking"
    /\ Receive(t, CreateOutcomes)

NextRefused ==
    \/ CallCreate(Main)
    \/ MakeRequest(Main)
    \/ AnswerCreate(Main)
    \/ Wake(Main)
    \/ CreateBooking_Check(Main)
    \/ CreateBooking_Init(Main)
    \/ CreateBooking_Add(Main)
    \/ CreateBooking_Validate(Main)
    \/ CreateBooking_V2(Main)
    \/ CreateBooking_V1(Main)
    \/ CreateBooking_Release(Main)
    \/ CreateBooking_Remove(Main)

SpecRefused == Init /\ [][NextRefused]_vars

(***************************************************************************)
(* cancel_booking and reschedule_booking called with what a caller may pass.*)
(***************************************************************************)
Uid12 == PyStr(<<"u12">>)
Uid13 == PyStr(<<"u13">>)
\* a start that is no ISO text
Tomorrow == PyStr(<<"tomorrow">>)
ChangeCalls ==
    {RescheduleFrame(uid, None, start, PyStr(<<>>)) :
        uid \in {Uid11, Uid12, Uid13}, start \in {Iso2, Tomorrow}}
    \cup {RescheduleFrame(None, None, Iso2, PyStr(<<>>)),
          CancelFrame(None, None, PyStr(<<"Cancelled by user">>))}

CallChange(t) ==
    /\ stack[t] = <<>>
    /\ calls < MaxCalls
    /\ \E f \in ChangeCalls :
         /\ stack' = [stack EXCEPT ![t] = <<f>>]
         /\ call' = [call EXCEPT ![t] = f]
    /\ calls' = calls + 1
    /\ returned' = [returned EXCEPT ![t] = Pending]
    /\ created' = [created EXCEPT ![t] = 0]
    /\ UNCHANGED <<session_state, processing, hasProcessing, request_cache, clock, overlap>>

NextChange ==
    \/ CallChange(Main)
    \/ MakeRequest(Main)
    \/ Answer(Main)
    \/ Wake(Main)
    \/ Resolve_Entry(Main)
    \/ Cancel_Entry(Main)
    \/ Cancel_V2(Main)
    \/ Cancel_V1(Main)
    \/ Reschedule_Entry(Main)
    \/ Reschedule_V2(Main)
    \/ Reschedule_Fallback(Main)
    \/ Reschedule_Lookup(Main)
    \/ Reschedule_Cancelled(Main)
    \/ Reschedule_Created(Main)
    \/ GetBookings_V2(Main)
    \/ GetBookings_V1(Main)
    \/ CreateBooking_Check(Main)
    \/ CreateBooking_Init(Main)
    \/ CreateBooking_Add(Main)
    \/ CreateBooking_Validate(Main)
    \/ CreateBooking_V2(Main)
    \/ CreateBooking_V1(Main)
    \/ CreateBooking_Release(Main)
    \/ CreateBooking_Remove(Main)

SpecChange == Init /\ [][NextChange]_vars

(***************************************************************************)
(* The dispatcher choosing an event type: the three tools that need one are *)
(* called with or without an event_type_id argument, with or without an id  *)
(* entered in the sidebar, and the backend lists titled and untitled event  *)
(* types.                                                                   *)
(***************************************************************************)
Six == PyInt(6)
Nine == PyInt(9)
\* event types without a usable title
NoTitle == ODict(<<"id", "slug">>, [id |-> PyInt(7), slug |-> PyStr(<<"lunch">>)])
EmptyTitle ==
    ODict(<<"id", "title", "slug">>,
          [id |-> PyInt(8), title |-> PyStr(<<>>), slug |-> PyStr(<<"misc">>)])
NullTitle ==
    ODict(<<"id", "title", "name", "slug">>,
          [id |-> Nine, title |-> None, name |-> PyStr(<<>>), slug |-> PyStr(<<"interview">>)])
PickTypes == {Interview, NoTitle, EmptyTitle, NullTitle}
\* the lists of event types the backend answers with
PickLists == {<<a>> : a \in PickTypes} \cup {<<a, b>> : a, b \in PickTypes}

PickReasons == {PyStr(<<"interview">>), PyStr(<<"lunch">>), PyStr(<<"Misc", " ">>)}
\* the tool calls: with event_type_id 6, or without
PickCalls ==
    LET WithId(c) == {c, <<c[1], PyDict([k \in DOMAIN c[2].v \cup {"event_type_id"} |->
                                            IF k = "event_type_id" THEN Six ELSE c[2].v[k]])>>}
    IN  UNION {WithId(c) : c \in
          {<<"get_available_slots", PyDict([date |-> Date1])>>,
           <<"create_booking_manual",
             PyDict([date |-> Date1, time |-> PyStr(<<"10:00">>), attendee_email |-> AnnEmail,
                     attendee_name |-> Ann])>>}
          \cup {<<"create_booking",
                  PyDict([start_time |-> Iso1, attendee_email |-> AnnEmail,
                          attendee_name |-> Ann, meeting_reason |-> r])>> : r \in PickReasons}}

DispatchPick(t) ==
    /\ stack[t] = <<>>
    /\ calls < MaxDispatches
    /\ \E c \in PickCalls :
         /\ stack' = [stack EXCEPT ![t] = <<ExecuteFrame(c[1], c[2])>>]
         /\ call' = [call EXCEPT ![t] = ExecuteFrame(c[1], c[2])]
    /\ calls' = calls + 1
    /\ returned' = [returned EXCEPT ![t] = Pending]
    /\ created' = [created EXCEPT ![t] = 0]
    /\ UNCHANGED <<session_state, processing, hasProcessing, request_cache, clock, overlap>>

\* lines 2405-2415: the event type id 9 is entered in the sidebar
PinManualEventId ==
    /\ calls = 0
    /\ session_state.manual_event_id = None
    /\ session_state' = [session_state EXCEPT !.manual_event_id = Nine]
    /\ UNCHANGED <<stack, returned, calls, processing, hasProcessing, request_cache, clock,
                   call, overlap, created>>

\* the backend answers the v2 event types request of the top frame of t
\* with a 200 and a list
AnswerTypes(t) ==
    /\ stack[t] # <<>>
    /\ Top(t).op = "get_event_types"
    /\ Top(t).pc = "v2"
    /\ Receive(t, {Resp(200, PyList(list)) : list \in PickLists})

NextPick ==
    \/ DispatchPick(Main)
    \/ PinManualEventId
    \/ AnswerTypes(Main)
    \/ MakeRequest(Main)
    \/ Answer(Main)
    \/ Wake(Main)
    \/ Execute_Entry(Main)
    \/ Execute_Types(Main)
    \/ Execute_Slots(Main)
    \/ Execute_Manual(Main)
    \/ Execute_Dumps(Main)
    \/ GetEventTypes_V2(Main)
    \/ GetEventTypes_V1(Main)
    \/ GetAvailableSlots_V2(Main)
    \/ GetAvailableSlots_V1(Main)
    \/ CreateBooking_Check(Main)
    \/ CreateBooking_Init(Main)
    \/ CreateBooking_Add(Main)
    \/ CreateBooking_Validate(Main)
    \/ CreateBooking_V2(Main)
    \/ CreateBooking_V1(Main)
    \/ CreateBooking_Release(Main)
    \/ CreateBooking_Remove(Main)

SpecPick == Init /\ [][NextPick]_vars

(***************************************************************************)
(* The adapter's operations and direct calls of _make_request_with_retry    *)
(* on one adapter.                                                          *)
(***************************************************************************)
\* the first operation the caller calls on the adapter
CallFirst(t) ==
    /\ \A u \in Threads : call[u].op \in {"", "_make_request_with_retry"}
    /\ calls < MaxCalls
    /\ CallOf(t, TopCalls)

\* a direct call made before any operation
RequestFirst(t) ==
    /\ \A u \in Threads : call[u].op \in {"", "_make_request_with_retry"}
    /\ Request(t)

NextBounded ==
    \/ CallFirst(Main)
    \/ RequestFirst(Main)
    \/ AnswerRetry(Main)
    \/ Request_Return(Main)
    \/ AdapterNext(Main)
    \/ DiagnoseNext(Main)

SpecBounded == Init /\ [][NextBounded]_vars

(***************************************************************************)
(* get_bookings answered with bookings that carry links in every place the  *)
(* search looks at, and in places it does not.                              *)
(***************************************************************************)
Http(x) == PyStr(<<"https://", x>>)

\* the links under preferred keys at the top level, next to a generic one
LinksOnTop ==
    ODict(<<"uid", "manageLink", "rescheduleUrl", "cancelUrl">>,
          [uid |-> Uid11, manageLink |-> Http("m"), rescheduleUrl |-> Http("r"),
           cancelUrl |-> Http("c")])
\* keys in another case; of two keys that differ only in case the later wins
LinksInUpperCase ==
    ODict(<<"uid", "rescheduleUrl", "RESCHEDULEURL", "CANCEL">>,
          [uid |-> Uid11, rescheduleUrl |-> PyStr(<<"ftp://", "r">>),
           RESCHEDULEURL |-> PyStr(<<"http://", "R">>), CANCEL |-> Http("C")])
\* the links in a container, under the last of the preferred keys
LinksInContainer ==
    ODict(<<"uid", "someUrl", "meta", "links">>,
          [uid |-> Uid12, someUrl |-> Http("s"),
           meta |-> ODict(<<"Reschedule">>, [Reschedule |-> Http("m")]),
           links |-> ODict(<<"reschedule", "cancelLink", "joinUrl">>,
                           [reschedule |-> Http("r"), cancelLink |-> Http("c"),
                            joinUrl |-> Http("j")])])
\* only keys that are not preferred for the two links
LinksGenericOnly ==
    ODict(<<"uid", "manageLink", "bookingUrl", "url">>,
          [uid |-> Uid12, manageLink |-> Http("m"), bookingUrl |-> Http("b"),
           url |-> Http("u")])
\* preferred keys holding a path and a number, and a later key holding a URL
LinksNotHttp ==
    ODict(<<"uid", "rescheduleUrl", "rescheduleLink", "cancelUrl">>,
          [uid |-> Uid13, rescheduleUrl |-> PyStr(<<"/r/", "1">>),
           rescheduleLink |-> Http("r"), cancelUrl |-> PyInt(5)])
\* the links in a nested dict that is no container, and the output keys
\* already present in the body
LinksNested ==
    ODict(<<"uid", "reschedule_url", "cancel_url", "meta">>,
          [uid |-> Uid13, reschedule_url |-> Http("old"), cancel_url |-> Http("old"),
           meta |-> ODict(<<"rescheduleLink", "statusPageUrl">>,
                          [rescheduleLink |-> Http("r"), statusPageUrl |-> Http("s")])])
LinkBookings == {LinksOnTop, LinksInUpperCase, LinksInContainer, LinksGenericOnly,
                 LinksNotHttp, LinksNested}
LinkLists == {<<b>> : b \in LinkBookings} \cup {<<a, b>> : a, b \in LinkBookings}

CallLinks(t) ==
    /\ stack[t] = <<>>
    /\ calls < MaxCalls
    /\ LET f == GetBookingsFrame(None, None)
       IN  /\ stack' = [stack EXCEPT ![t] = <<f>>]
           /\ call' = [call EXCEPT ![t] = f]
    /\ calls' = calls + 1
    /\ returned' = [returned EXCEPT ![t] = Pending]
    /\ created' = [created EXCEPT ![t] = 0]
    /\ UNCHANGED <<session_state, processing, hasProcessing, request_cache, clock, overlap>>

\* the backend answers the bookings request of the top frame of t with a
\* 200 and link bookings
AnswerLinks(t) ==
    /\ stack[t] # <<>>
    /\ Top(t).op = "get_bookings"
    /\ Receive(t, {Resp(200, PyList(list)) : list \in LinkLists})

NextLinks ==
    \/ CallLinks(Main)
    \/ AnswerLinks(Main)
    \/ MakeRequest(Main)
    \/ Answer(Main)
    \/ Wake(Main)
    \/ GetBookings_V2(Main)
    \/ GetBookings_V1(Main)

SpecLinks == Init /\ [][NextLinks]_vars

(***************************************************************************)
(* Properties.                                                              *)
(***************************************************************************)
PublicOps == {"get_event_types", "get_available_slots", "create_booking",
              "get_bookings", "cancel_booking", "reschedule_booking"}

\* in this step the top frame of t returns or raises
Returning(t) == stack[t] # <<>> /\ Len(stack'[t]) = Len(stack[t]) - 1
\* what it returns or raises: to the caller of the adapter, or to the frame below
ReturnValue(t) ==
    IF Len(stack[t]) = 1 THEN returned'[t] ELSE stack'[t][Len(stack[t]) - 1].ret
\* in this step the top frame of t stays and moves to pc
MovingTo(t, pc) ==
    /\ Len(stack'[t]) = Len(stack[t])
    /\ stack'[t][Len(stack[t])].pc = pc
\* in this step the top frame of t goes on with the request of its pc: it
\* waits for an answer or sleeps, or it has what the call returned or raised
InRequest(t, pc) ==
    \/ MovingTo(t, pc) /\ InFlight(stack'[t][Len(stack[t])])
    \/ MovingTo(t, ResponsePc(pc))
\* in this step a frame of op is called from the top frame of t
Calling(t, op) ==
    /\ Len(stack'[t]) = Len(stack[t]) + 1
    /\ stack'[t][Len(stack'[t])].op = op

\* a result object: a dict with a bool under "success"
IsResult(x) == IsDict(x) /\ Has(x, "success") /\ Get(x, "success").t = "bool"
IsFailure(x) == IsResult(x) /\ ~Get(x, "success").v
IsSuccess(x) == IsResult(x) /\ Get(x, "success").v

\* the top frame of t holds the answer to its v2 request
AtV2Response(t) ==
    /\ stack[t] # <<>>
    /\ Top(t).op \in PublicOps
    /\ Top(t).pc = "v2_response"

\* C1: whenever a create_booking call that got past the duplicate check
\* returns (validation rejection, final status >= 400, 2xx, transport
\* exception), its key is no longer in _processing_bookings.
C1_GuardReleasedOnReturn ==
    [][\A t \in Threads :
          (/\ Returning(t)
           /\ Top(t).op = "create_booking"
           /\ Top(t).pc # "check")
          => FrameKey(Top(t)) \notin processing']_vars

\* C2: of two create_booking calls with the same key, one begun while the
\* other had not returned, at most one gets past the guard to the network;
\* the other returns the duplicate result.
C2_OneCallPastTheGuard ==
    \A t \in Threads : \A u \in overlap[t] :
        ~(/\ stack[t] # <<>> /\ stack[u] # <<>>
          /\ Top(t).op = "create_booking" /\ Top(u).op = "create_booking"
          /\ FrameKey(Top(t)) = FrameKey(Top(u))
          /\ Top(t).pc \in {"v2", "v2_response", "v1", "v1_response"}
          /\ Top(u).pc \in {"v2", "v2_response", "v1", "v1_response"})

\* C3: a create_booking call whose payload fails validate_booking_payload
\* returns the failure that carries the list of errors, and has made no
\* request.
C3_InvalidPayloadRejected ==
    [][\A t \in Threads :
          (/\ Returning(t)
           /\ Top(t).op = "create_booking"
           /\ ~Get(validate_booking_payload(BookingPayload(Top(t))), "valid").v)
          => /\ ReturnValue(t) = ValidationFailure(validate_booking_payload(BookingPayload(Top(t))))
             /\ Top(t).r = NoRequest]_vars

\* C4: every call of a public operation ends by returning a result object
\* with a bool success: it neither raises nor returns None.
C4_AlwaysAResult ==
    \A t \in Threads :
        (stack[t] = <<>> /\ returned[t] # Pending) => IsResult(returned[t])

\* the bodies of C5: the created booking at the top level, and under "data"
NestedCreated == ODict(<<"status", "data">>, [status |-> PyStr(<<"success">>), data |-> CreatedBooking])

\* C5: when the booking POST is answered 2xx with the booking at the top
\* level of the body or nested under a non-empty data, create_booking
\* returns success with the booking's id and uid.
C5_CreatedBookingReturned ==
    [][\A t \in Threads :
          (/\ stack[t] # <<>>
           /\ Top(t).op = "create_booking"
           /\ Top(t).pc \in {"v2_response", "v1_response"}
           /\ Top(t).r.kind = "return"
           /\ Top(t).r.response.status_code \in 200..299
           /\ Top(t).r.response.body \in {CreatedBooking, NestedCreated})
          => /\ Returning(t)
             /\ IsSuccess(ReturnValue(t))
             /\ Get(ReturnValue(t), "booking_id") = PyInt(7)
             /\ Get(ReturnValue(t), "booking_uid") = PyStr(<<"u7">>)]_vars

\* C6: when the v2 request of an operation ended in a 5xx after its retries
\* or raised a transport error, the operation goes on to its v1 path (for
\* reschedule_booking, the cancel-then-create path) instead of returning.
C6_ServerErrorFallsBack ==
    [][\A t \in Threads :
          (/\ AtV2Response(t)
           /\ Top(t).r.kind = "raise" \/ Top(t).r.response.status_code >= 500)
          => MovingTo(t, "v1") \/ MovingTo(t, "fallback")]_vars

\* C7: when the v2 request of an operation is answered 4xx, the operation
\* returns a failure and makes no v1 request.
C7_ClientErrorIsTerminal ==
    [][\A t \in Threads :
          (/\ AtV2Response(t)
           /\ Top(t).r.kind = "return"
           /\ Top(t).r.response.status_code \in 400..499)
          => Returning(t) /\ IsFailure(ReturnValue(t))]_vars

\* a cancel_booking frame that was given a booking_id and no booking_uid
IdOnly(f) == f.op = "cancel_booking" /\ ~Truthy(f.booking_uid) /\ Truthy(f.booking_id)

\* C8: cancel_booking given only a booking_id resolves it before any cancel
\* request, and when the id resolves to no UID it makes no cancel request:
\* no such call is ever past the sending of its v2 cancel request.
C8_NoCancelWithUnresolvedId ==
    \A t \in Threads :
        ~(/\ stack[t] # <<>>
          /\ IdOnly(Top(t))
          /\ ~Truthy(Top(t).ret)
          /\ Top(t).pc \in {"v2_response", "v1", "v1_response"})

\* C9 as the spec states it: a 4xx answer of the v2 reschedule endpoint
\* starts the cancel-then-create sequence.
C9_ClientErrorCompensated ==
    [][\A t \in Threads :
          (/\ AtPc(t, "reschedule_booking", "v2_response")
           /\ Top(t).r.kind = "return"
           /\ Top(t).r.response.status_code \in 400..499)
          => MovingTo(t, "fallback")]_vars

\* C9: a 4xx answer of the v2 reschedule endpoint ends reschedule_booking
\* with a failure and nothing is cancelled or created; the cancel-then-create
\* sequence starts on a 5xx answer only: the original booking is cancelled
\* after it was looked up, and the new one created after the cancellation
\* succeeded.
C9_CompensationOnServerErrorOnly ==
    [][\A t \in Threads :
          /\ (/\ AtPc(t, "reschedule_booking", "v2_response")
              /\ Top(t).r.kind = "return"
              /\ Top(t).r.response.status_code \in 400..499)
             => /\ Returning(t)
                /\ IsFailure(ReturnValue(t))
                /\ Head(Get(ReturnValue(t), "error").v) = "Cannot reschedule: "
          /\ (/\ AtPc(t, "reschedule_booking", "v2_response")
              /\ Top(t).r.kind = "return"
              /\ Top(t).r.response.status_code >= 500)
             => MovingTo(t, "fallback")
          /\ (/\ stack[t] # <<>>
              /\ Top(t).op = "reschedule_booking"
              /\ Calling(t, "cancel_booking"))
             => /\ Top(t).pc = "lookup"
                /\ Top(t).r.response.status_code >= 500
                /\ IsSuccess(Top(t).ret)
          /\ (/\ stack[t] # <<>>
              /\ Top(t).op = "reschedule_booking"
              /\ Calling(t, "create_booking"))
             => /\ Top(t).pc = "cancelled"
                /\ Top(t).r.response.status_code >= 500
                /\ IsSuccess(Top(t).ret)]_vars

\* reschedule_booking has returned the failure of a 4xx answer of the v2
\* reschedule endpoint
C9_Witness ==
    \E t \in Threads :
        /\ stack[t] = <<>>
        /\ call[t].op = "reschedule_booking"
        /\ IsFailure(returned[t])
        /\ Head(Get(returned[t], "error").v) = "Cannot reschedule: "
        /\ Get(Get(returned[t], "error_details"), "status_code") = PyInt(400)

\* the result says that the creation failed after the cancellation
MarkedPartial(x) ==
    /\ IsFailure(x)
    /\ Has(x, "error_details")
    /\ Has(Get(x, "error_details"), "error")
    /\ Get(Get(x, "error_details"), "error").v # <<>>
    /\ Head(Get(Get(x, "error_details"), "error").v) = "Failed to create new booking: "
    /\ SubSeq(Get(x, "error").v, 1, 2)
          = <<"Reschedule failed on both v2 and v1: ", "Failed to create new booking: ">>

\* the fallback of frame f cancelled the original booking and create_booking
\* then returned a failure
PartialFailure(f) ==
    /\ f.op = "reschedule_booking"
    /\ f.pc = "created"
    /\ IsFailure(f.ret)

\* C10: the result of reschedule_booking names the failed creation in its
\* error and error_details.error exactly when the fallback cancelled the
\* original booking and the creation of the new one failed: no result of a
\* call that cancelled nothing, and no success, reads so.
C10_PartialFailureMarked ==
    [][\A t \in Threads :
          (/\ Returning(t)
           /\ Top(t).op = "reschedule_booking")
          => (MarkedPartial(ReturnValue(t)) <=> PartialFailure(Top(t)))]_vars

\* reschedule_booking has returned after a cancellation that succeeded and a
\* creation that failed
C10_Witness ==
    \E t \in Threads :
        /\ stack[t] = <<>>
        /\ call[t].op = "reschedule_booking"
        /\ MarkedPartial(returned[t])

\* the call of _make_request_with_retry thread t made on its own has ended
Requested(t) ==
    /\ call[t].op = "_make_request_with_retry"
    /\ stack[t] = <<>>
    /\ "requests" \in DOMAIN returned[t]
\* the cache key of that call
RequestKey(t) == <<call[t].method, call[t].url, call[t].params>>
\* the call had to go to the network: no request would mean a cached answer
WentOut(t) == Requested(t) /\ returned[t].requests > 0

\* the outcome of a request after which the loop goes on
Failed(o) == o.kind = "exc" \/ o.status >= 500

\* C11: a call of _make_request_with_retry that goes to the network makes
\* between 1 and max_retries requests; every request before its last met a
\* 5xx response or a transport exception.  A call that met a response below
\* 500 returns it, with no further request.  A call whose requests all
\* failed either made max_retries of them, and returns the response of the
\* last (or raises its exception), or is a GET that, on its next pass,
\* found in the cache what another thread stored there in the meantime.
C11_RetryOnlyAfterFailure ==
    \A t \in Threads :
        WentOut(t) =>
            LET n == returned[t].requests
                met == returned[t].met
            IN  /\ n \in 1..call[t].max_retries
                /\ \A i \in 1..(n - 1) : Failed(met[i])
                /\ IF returned[t].served
                   THEN /\ Failed(met[n])
                        /\ n < call[t].max_retries
                        /\ call[t].method = "GET"
                        /\ returned[t].kind = "return"
                        /\ returned[t].response.status_code < 400
                   ELSE /\ n < call[t].max_retries => ~Failed(met[n])
                        /\ IF met[n].kind = "resp"
                           THEN /\ returned[t].kind = "return"
                                /\ returned[t].response = ResponseOf(met[n], call[t].url)
                           ELSE returned[t].kind = "raise"

\* a call allowed three attempts met a transport error, then a 404, and
\* returned the 404 from its second request, one second after it began
C11_Witness ==
    \E t \in Threads :
        /\ WentOut(t)
        /\ call[t].max_retries = 3
        /\ returned[t].met[1].kind = "exc"
        /\ returned[t].requests = 2
        /\ ~returned[t].served
        /\ returned[t].response.status_code = 404
        /\ clock = call[t].clock + 1

\* thread t runs a cache check of a direct call in this step: the first
\* lines of a pass of the loop
CacheCheck(t) ==
    /\ stack[t] # <<>>
    /\ Top(t).op = "_make_request_with_retry"
    /\ Top(t).pc = "request"
    /\ Top(t).r.kind # "sent"
    /\ stack'[t] # stack[t]

\* C12: a pass of a call is answered from the cache, without a request,
\* exactly when the call is a GET whose key was stored less than 30 seconds
\* before; the cache holds only responses below 400 to GETs, and a POST or
\* DELETE leaves it as it was.
C12_CacheServesFreshGets ==
    /\ [](\A k \in DOMAIN request_cache :
             k[1] = "GET" /\ request_cache[k].response.status_code < 400)
    /\ [][\A t \in Threads :
            /\ CacheCheck(t)
               => LET f == Top(t)
                      after == stack'[t][1]
                      key == <<f.method, f.url, f.params>>
                      fresh == /\ f.method = "GET"
                               /\ key \in DOMAIN request_cache
                               /\ clock' - request_cache[key].timestamp < 30
                  IN  /\ request_cache' = request_cache
                      /\ after.met = f.met
                      /\ IF fresh
                         THEN /\ after.pc = "response"
                              /\ after.served
                              /\ after.r.kind = "return"
                              /\ after.r.response = request_cache[key].response
                         ELSE /\ after.pc = "request"
                              /\ after.r.kind = "sent"
                              /\ ~after.served
            /\ (/\ stack[t] # <<>>
                /\ Top(t).op = "_make_request_with_retry"
                /\ Top(t).method # "GET"
                /\ stack'[t] # stack[t])
               => request_cache' = request_cache]_vars

\* a GET was answered without a request from an entry stored 29 seconds
\* before
C12_Witness ==
    \E t \in Threads :
        /\ Requested(t)
        /\ call[t].method = "GET"
        /\ RequestKey(t) \in DOMAIN call[t].cache
        /\ call[t].clock - call[t].cache[RequestKey(t)].timestamp = 29
        /\ returned[t].requests = 0
        /\ returned[t].served
        /\ returned[t].kind = "return"
        /\ returned[t].response = call[t].cache[RequestKey(t)].response

\* lines 1693-1805: the names of the declared tools
DeclaredTools ==
    {"get_event_types", "get_available_slots", "create_booking_manual", "create_booking",
     "get_bookings", "cancel_booking", "reschedule_booking"}

\* the value is the serialization of a result object with success false
IsSerializedFailure(x) == x.t = "json" /\ IsFailure(Loads(x))

\* a tool call with a required argument missing or malformed
Malformed(f) ==
    \/ /\ f.function_name = "create_booking"
       /\ ~Has(f.arguments, "start_time") \/ ~Has(f.arguments, "attendee_email")
    \/ /\ f.function_name = "reschedule_booking"
       /\ ~Has(f.arguments, "new_start_time")
    \/ /\ f.function_name = "get_available_slots"
       /\ StrptimeError(Get(f.arguments, "date")) # ""

\* C15: execute_function given a declared tool with a required argument
\* missing or malformed returns the serialization of a result with success
\* false: it does not raise.
C15_MalformedArgumentsAnswered ==
    [][\A t \in Threads :
          (/\ Returning(t)
           /\ Top(t).op = "execute_function"
           /\ Malformed(Top(t)))
          => IsSerializedFailure(ReturnValue(t))]_vars

\* C16: execute_function given a name that is no declared tool returns the
\* serialization of {success: false, error: "Unknown function"} in its first
\* step: it does not raise, and no operation of the adapter is called.
C16_UnknownFunctionAnswered ==
    [][\A t \in Threads :
          (/\ AtPc(t, "execute_function", "entry")
           /\ Top(t).function_name \notin DeclaredTools)
          => /\ Returning(t)
             /\ ReturnValue(t).t = "json"
             /\ Loads(ReturnValue(t)) = PyDict([success |-> PyBool(FALSE),
                                                error |-> PyStr(<<"Unknown function">>)])
             /\ UNCHANGED request_cache]_vars

\* execute_function has answered the tool call send_email
C16_Witness ==
    \E t \in Threads :
        /\ stack[t] = <<>>
        /\ call[t].op = "execute_function"
        /\ call[t].function_name = "send_email"
        /\ returned[t].t = "json"
        /\ Get(Loads(returned[t]), "error") = PyStr(<<"Unknown function">>)

\* the top frame of t is a create_booking dispatch that has fetched event
\* types to match its reason with
MatchingReason(t) ==
    /\ AtPc(t, "execute_function", "types")
    /\ Top(t).function_name = "create_booking"
    /\ IsDict(Top(t).ret)
    /\ Truthy(Get(Top(t).ret, "success"))
    /\ Truthy(Get(Top(t).ret, "event_types"))

\* C17: with the categories "Interview" and "Interview Prep" fetched in
\* either order, a create_booking dispatch with the reason "interview" calls
\* the adapter's create_booking with the id of "Interview".
C17_ExactMatchWins ==
    [][\A t \in Threads :
          (/\ MatchingReason(t)
           /\ Get(Top(t).arguments, "meeting_reason") = PyStr(<<"interview">>)
           /\ Get(Top(t).ret, "event_types").v
                 \in {<<Interview, InterviewPrep>>, <<InterviewPrep, Interview>>})
          => /\ Calling(t, "create_booking")
             /\ stack'[t][Len(stack'[t])].event_type_id = Get(Interview, "id")]_vars

\* no title or slug of the event types equals the reason, and no title
\* contains it or is contained in it (texts compared in lower case)
NoneMatches(meeting_reason, event_types) ==
    \A i \in DOMAIN event_types :
        LET title == Lower(Or(Get(event_types[i], "title"), PyStr(<<>>)))
            slug == Lower(Or(Get(event_types[i], "slug"), PyStr(<<>>)))
            reason == Lower(meeting_reason)
        IN  /\ reason # title
            /\ reason # slug
            /\ ~IsInfix(reason, title)
            /\ ~IsInfix(title, reason)

\* C18: a create_booking dispatch without event type id or manual override,
\* whose reason matches none of the fetched categories, returns the
\* serialized no_matching_event_type failure that lists every category, and
\* does not call the adapter's create_booking.
C18_NoMatchListsChoices ==
    [][\A t \in Threads :
          (/\ MatchingReason(t)
           /\ Has(Top(t).arguments, "meeting_reason")
           /\ NoneMatches(Get(Top(t).arguments, "meeting_reason"),
                          Get(Top(t).ret, "event_types").v))
          => /\ Returning(t)
             /\ IsSerializedFailure(ReturnValue(t))
             /\ Get(Loads(ReturnValue(t)), "error") = PyStr(<<"no_matching_event_type">>)
             /\ LET listed == Get(Loads(ReturnValue(t)), "available_event_types").v
                    event_types == Get(Top(t).ret, "event_types").v
                IN  /\ Len(listed) = Len(event_types)
                    /\ \A i \in DOMAIN listed :
                          /\ Get(listed[i], "id") = Get(event_types[i], "id")
                          /\ Get(listed[i], "title") = Get(event_types[i], "title")]_vars

\* the dispatch of create_booking with the reason "lunch" has returned the
\* two categories to choose from
C18_Witness ==
    \E t \in Threads :
        /\ stack[t] = <<>>
        /\ call[t].op = "execute_function"
        /\ call[t].function_name = "create_booking"
        /\ Get(call[t].arguments, "meeting_reason") = PyStr(<<"lunch">>)
        /\ returned[t].t = "json"
        /\ Get(Loads(returned[t]), "error") = PyStr(<<"no_matching_event_type">>)
        /\ Len(Get(Loads(returned[t]), "available_event_types").v) = 2

\* C13: when chat_with_assistant ends it has called the model at most
\* twice; if the first response held tool calls, it dispatched the first of
\* them and nothing else, called the model a second time without tools and
\* returns that reply; if it held none, it dispatched nothing, made no
\* second call and returns the direct reply.
C13_TwoPassesPerTurn ==
    [][\A t \in Threads :
          (/\ Returning(t)
           /\ Top(t).op = "chat_with_assistant")
          => LET f == Top(t)
                 first == f.model_calls[1].reply
             IN  /\ Len(f.model_calls) \in 1..2
                 /\ f.model_calls[1].tools
                 /\ IF first.tool_calls # <<>>
                    THEN /\ Len(f.dispatched) = 1
                         /\ f.dispatched[1][1] = first.tool_calls[1].name
                         /\ Len(f.model_calls) = 2
                         /\ ~f.model_calls[2].tools
                         /\ ReturnValue(t).t = "tuple"
                         /\ ReturnValue(t).v[1] = f.model_calls[2].reply.content
                    ELSE /\ f.dispatched = <<>>
                         /\ Len(f.model_calls) = 1
                         /\ ReturnValue(t).t = "tuple"
                         /\ ReturnValue(t).v[1] = first.content]_vars

\* the messages hold, one after the other, an assistant message with a
\* tool call and the tool message of that call
HoldsToolExchange(messages) ==
    \E i \in 1..(Len(messages) - 1) :
        /\ Get(messages[i], "role") = PyStr(<<"assistant">>)
        /\ Has(messages[i], "tool_calls")
        /\ Get(messages[i + 1], "role") = PyStr(<<"tool">>)
        /\ Get(messages[i + 1], "tool_call_id") = Get(Get(messages[i], "tool_calls").v[1], "id")

\* C14: when a turn in which a tool call was dispatched and answered ends,
\* the transcript st.session_state.messages holds the assistant message
\* with the tool call followed by the tool message with its result.
C14_TranscriptKeepsToolExchange ==
    [][\A t \in Threads :
          (/\ Returning(t)
           /\ Top(t).op = "main"
           /\ Top(t).ret.t = "tuple"
           /\ HoldsToolExchange(Top(t).ret.v[2].v))
          => HoldsToolExchange(session_state'.messages)]_vars


\* the read operations and the key each returns its items under
ReadOps == {"get_event_types", "get_available_slots", "get_bookings"}
ResultList(op) ==
    CASE op = "get_event_types" -> "event_types"
      [] op = "get_available_slots" -> "slots"
      [] OTHER -> "bookings"

\* a body that is not JSON, a scalar, a list holding a non-object, or an
\* object without keys
UnexpectedBody(body) ==
    \/ body = NotJson
    \/ body.t \in {"str", "int", "bool", "None"}
    \/ IsList(body) /\ \E i \in DOMAIN body.v : ~IsDict(body.v[i])
    \/ IsDict(body) /\ DOMAIN body.v = {}

\* the top frame of t is a read operation holding a 2xx answer to one of its
\* requests
ReadAnswered2xx(t) ==
    /\ stack[t] # <<>>
    /\ Top(t).op \in ReadOps
    /\ Top(t).pc \in {"v2_response", "v1_response"}
    /\ Top(t).r.kind # "raise"
    /\ Top(t).r.response.status_code \in 200..299

\* C19: a read operation (get_event_types, get_available_slots,
\* get_bookings) that is answered 2xx with a body of unparseable or
\* unexpected structure returns success=true with an empty result list; it
\* neither returns success=false nor raises.
C19_UnexpectedBodyReadsEmpty ==
    [][\A t \in Threads :
          (/\ ReadAnswered2xx(t)
           /\ UnexpectedBody(Top(t).r.response.body)
           /\ Returning(t))
          => /\ IsSuccess(ReturnValue(t))
             /\ Get(ReturnValue(t), ResultList(Top(t).op)) = PyList(<<>>)]_vars


\* a parsed body that holds no items: an empty list, or an object with an
\* empty "data" or "slots" and nothing under the other of the two
HoldsNoItems(body) ==
    \/ IsList(body) /\ body.v = <<>>
    \/ /\ IsDict(body)
       /\ \E k \in {"data", "slots"} : Has(body, k) /\ Get(body, k).t \in {"list", "dict"}
       /\ \A k \in {"data", "slots"} : Has(body, k) => ~Truthy(Get(body, k))

\* C20: a 2xx answer with zero items is not an error: get_available_slots
\* answered 2xx with a body holding no slots returns success=true, slots=[]
\* and count=0, and get_event_types answered 2xx with a body holding no
\* event types returns success=true with event_types=[].
C20_ZeroItemsIsSuccess ==
    [][\A t \in Threads :
          (/\ ReadAnswered2xx(t)
           /\ Top(t).op \in {"get_available_slots", "get_event_types"}
           /\ HoldsNoItems(Top(t).r.response.body)
           /\ Returning(t))
          => /\ IsSuccess(ReturnValue(t))
             /\ Get(ReturnValue(t), ResultList(Top(t).op)) = PyList(<<>>)
             /\ Top(t).op = "get_available_slots"
                => Get(ReturnValue(t), "count") = PyInt(0)]_vars

\* a get_available_slots call whose 2xx answers all held no slots has
\* returned success with no slots and count 0
C20_Witness ==
    \E t \in Threads :
        /\ stack[t] = <<>>
        /\ call[t].op = "get_available_slots"
        /\ IsSuccess(returned[t])
        /\ Get(returned[t], "slots") = PyList(<<>>)
        /\ Get(returned[t], "count") = PyInt(0)
        /\ \E k \in DOMAIN request_cache :
              "/slots" \in Range(request_cache[k].response.url)
        /\ \A k \in DOMAIN request_cache :
              "/slots" \in Range(request_cache[k].response.url)
              => HoldsNoItems(request_cache[k].response.body)


\* the instants of a generated answer, in response order: the value of every
\* entry of every date
RECURSIVE FlatInstants(_)
FlatInstants(dayLists) ==
    IF dayLists = <<>> THEN <<>>
    ELSE [j \in DOMAIN Head(dayLists).v |-> Values(Head(dayLists).v[j])[1]]
         \o FlatInstants(Tail(dayLists))
AnsweredInstants(body) ==
    FlatInstants(Values(IF Has(body, "slots") THEN Get(body, "slots") ELSE Get(body, "data")))
\* s holds every value of flat once, in the order of their first places in flat
InResponseOrder(s, flat) ==
    LET FirstAt(x) == CHOOSE i \in DOMAIN flat : flat[i] = x /\ \A j \in 1..(i - 1) : flat[j] # x
    IN  /\ Range(s) = Range(flat)
        /\ \A i, j \in DOMAIN s : i < j => s[i] # s[j] /\ FirstAt(s[i]) < FirstAt(s[j])

\* C21: get_available_slots answered 2xx by v2 with instants nested under
\* data.<date>[].start, or by v1 with instants nested under
\* slots.<date>[].time, returns the flat list of those instants in response
\* order without duplicates: the same list for the same instants.
C21_SameSlotsFromEitherApi ==
    [][\A t \in Threads :
          (/\ ReadAnswered2xx(t)
           /\ Top(t).op = "get_available_slots"
           /\ Returning(t))
          => /\ IsSuccess(ReturnValue(t))
             /\ Get(ReturnValue(t), "slots").t = "list"
             /\ InResponseOrder(Get(ReturnValue(t), "slots").v,
                                AnsweredInstants(Top(t).r.response.body))]_vars

\* both answers for days with a repeated instant were given, and the call
\* answered last returned the two instants once each
C21_Witness ==
    \E days \in SlotDays :
        /\ Len(days) = 2
        /\ Len(days[1]) = 2 /\ days[1][1] # days[1][2]
        /\ days[2] = <<days[1][2], days[1][1]>>
        /\ \E k \in DOMAIN request_cache : request_cache[k].response.body = V2Body(days)
        /\ \E k \in DOMAIN request_cache : request_cache[k].response.body = V1Body(days)
        /\ stack[Main] = <<>>
        /\ IsSuccess(returned[Main])
        /\ Get(returned[Main], "slots") = PyList(days[1])
        /\ Get(returned[Main], "api_version") = PyStr(<<"v1">>)


\* b has an attendee with this e-mail, whatever the case of the letters
HasAttendeeEmail(b, attendee_email) ==
    \E i \in DOMAIN AttendeesOf(b) :
        /\ IsDict(AttendeesOf(b)[i])
        /\ IsStr(Get(AttendeesOf(b)[i], "email"))
        /\ Lower(Get(AttendeesOf(b)[i], "email")) = Lower(attendee_email)
\* b has an attendee whose name contains this name, whatever the case
HasAttendeeName(b, attendee_name) ==
    \E i \in DOMAIN AttendeesOf(b) :
        /\ IsDict(AttendeesOf(b)[i])
        /\ IsStr(Get(AttendeesOf(b)[i], "name"))
        /\ IsInfix(Lower(attendee_name), Lower(Get(AttendeesOf(b)[i], "name")))

\* C22: every booking get_bookings returns satisfies every filter that was
\* supplied: with attendee_email it has an attendee of that e-mail, with
\* attendee_name it has an attendee whose name contains it, with both it
\* has both.
C22_ReturnedBookingsPassEveryFilter ==
    [][\A t \in Threads :
          (/\ Returning(t)
           /\ Top(t).op = "get_bookings"
           /\ IsSuccess(ReturnValue(t)))
          => \A i \in DOMAIN Get(ReturnValue(t), "bookings").v :
                LET b == Get(ReturnValue(t), "bookings").v[i] IN
                /\ Truthy(Top(t).attendee_email) => HasAttendeeEmail(b, Top(t).attendee_email)
                /\ Truthy(Top(t).attendee_name) => HasAttendeeName(b, Top(t).attendee_name)]_vars


\* the message of each status that has one
MappedStatuses == {409, 422, 429} \cup {s \in FailStatuses : s >= 500}
MappedError(status) ==
    CASE status = 409 -> "Booking failed: Time slot is no longer available. Please try a different time."
      [] status = 422 -> "Booking failed: Invalid booking data. Please check your meeting details."
      [] status = 429 -> "Booking failed: Too many requests. Please wait a moment and try again."
      [] OTHER -> "Booking failed: Cal.com server error. Please try again in a few minutes."
\* the text of a str value
TextOf(x) == IF Len(x.v) = 2 THEN x.v[1] \o x.v[2] ELSE ""

\* C23: when create_booking returns for a final response with a status >=
\* 400, the result is a failure that carries the status; for 409, 422, 429
\* and every status >= 500 its error is the message of that status whatever
\* the body says, and retry_suggested is true exactly when the status is >=
\* 500.
C23_FailureMessageByStatus ==
    [][\A t \in Threads :
          (/\ Returning(t)
           /\ Top(t).op = "create_booking"
           /\ Top(t).pc \in {"v2_response", "v1_response"}
           /\ Top(t).r.kind # "raise"
           /\ Top(t).r.response.status_code >= 400)
          => LET status == Top(t).r.response.status_code IN
             /\ IsFailure(ReturnValue(t))
             /\ Get(ReturnValue(t), "status_code") = PyInt(status)
             /\ Get(ReturnValue(t), "retry_suggested") = PyBool(status >= 500)
             /\ status \in MappedStatuses
                => TextOf(Get(ReturnValue(t), "error")) = MappedError(status)]_vars

\* a call refused with 503 at every attempt has returned its failure
C23_Witness ==
    /\ stack[Main] = <<>>
    /\ IsFailure(returned[Main])
    /\ Get(returned[Main], "status_code") = PyInt(503)
    /\ Get(returned[Main], "retry_suggested") = PyBool(TRUE)
    /\ TextOf(Get(returned[Main], "error")) = MappedError(503)


\* the top frame of t is cancel_booking holding what its request at pc ended with
CancelAnswered(t, pc) ==
    /\ stack[t] # <<>>
    /\ Top(t).op = "cancel_booking"
    /\ Top(t).pc = pc

\* C24: in cancel_booking a 4xx answer of the v2 cancel endpoint ends the
\* call with the client-error failure and no v1 request; a 5xx answer (the
\* last of its attempts) is followed by the v1 cancel request, and the
\* answer to that request decides the result: a failure for a status >= 400
\* or a transport error, a success for a 2xx whose body is an object or no
\* JSON.
C24_CancelFallsBackOnServerErrorOnly ==
    [][\A t \in Threads :
          /\ (/\ CancelAnswered(t, "v2_response")
              /\ Top(t).r.kind # "raise"
              /\ Top(t).r.response.status_code \in 400..499)
             => /\ Returning(t)
                /\ IsFailure(ReturnValue(t))
                /\ Get(ReturnValue(t), "error").v[1] = "Cannot cancel booking: "
          /\ (/\ CancelAnswered(t, "v2_response")
              /\ Top(t).r.kind # "raise"
              /\ Top(t).r.response.status_code >= 500)
             => MovingTo(t, "v1")
          /\ (CancelAnswered(t, "v1") /\ stack'[t] # stack[t])
             => /\ InRequest(t, "v1")
                /\ RequestOf(Top(t)).method = "DELETE"
                /\ IsV2(RequestOf(Top(t)).url) = FALSE
          /\ CancelAnswered(t, "v1_response")
             => /\ Returning(t)
                /\ (Top(t).r.kind = "raise" \/ Top(t).r.response.status_code >= 400)
                   => IsFailure(ReturnValue(t))
                /\ (/\ Top(t).r.kind # "raise"
                    /\ Top(t).r.response.status_code < 400
                    /\ (IsDict(Top(t).r.response.body) \/ Top(t).r.response.body = NotJson))
                   => IsSuccess(ReturnValue(t))]_vars

\* a cancel_booking call has returned the failure of its v1 request, which
\* it makes after a 5xx of v2 only
C24_Witness ==
    /\ stack[Main] = <<>>
    /\ call[Main].op = "cancel_booking"
    /\ IsFailure(returned[Main])
    /\ Get(returned[Main], "error").v[1] = "Cancellation failed: "
    /\ Get(Get(returned[Main], "error_details"), "api_version") = PyStr(<<"v1">>)


\* the message carries the time context
HasContext(msg) ==
    /\ IsStr(Get(msg, "content"))
    /\ \E i \in DOMAIN Get(msg, "content").v : <<Get(msg, "content").v[i]>> = RuntimeContext
IsSystem(msg) == Get(msg, "role") = PyStr(<<"system">>)
\* the calls of the model made so far in the turn of t
ModelCallsOf(t) ==
    IF \E i \in DOMAIN stack[t] : stack[t][i].op = "chat_with_assistant"
    THEN stack[t][CHOOSE i \in DOMAIN stack[t] : stack[t][i].op = "chat_with_assistant"].model_calls
    ELSE <<>>

\* C25: the messages of every model call hold the time context once: at the
\* end of the first system message of the transcript, which is otherwise
\* sent as stored, or alone in a system message put in front when the
\* transcript has none; the rest is sent as it is, and no message of the
\* stored transcript ever holds the context.
C25_ContextOncePerModelCall ==
    /\ \A i \in DOMAIN session_state.messages : ~HasContext(session_state.messages[i])
    /\ \A t \in Threads : \A n \in DOMAIN ModelCallsOf(t) :
          LET sent == ModelCallsOf(t)[n].messages
              stored == session_state.messages
          IN  /\ Cardinality({i \in DOMAIN sent : HasContext(sent[i])}) = 1
              /\ IF \E i \in DOMAIN stored : IsSystem(stored[i])
                 THEN LET k == CHOOSE i \in DOMAIN stored :
                                  IsSystem(stored[i]) /\ \A j \in 1..(i - 1) : ~IsSystem(stored[j])
                      IN  /\ IsSystem(sent[k])
                          /\ Get(sent[k], "content").v
                             = Get(stored[k], "content").v \o <<"\n\n">> \o RuntimeContext
                          /\ \A i \in DOMAIN stored : i # k => sent[i] = stored[i]
                 ELSE /\ IsSystem(sent[1])
                      /\ Get(sent[1], "content").v = RuntimeContext
                      /\ \A i \in DOMAIN stored : sent[i + 1] = stored[i]

\* the second model call of the last turn has been made on a transcript
\* that was cleared before the turn: the context is in the message put in
\* front
C25_Witness ==
    /\ Len(ModelCallsOf(Main)) = 2
    /\ calls = MaxTurns
    /\ \A i \in DOMAIN session_state.messages : ~IsSystem(session_state.messages[i])
    /\ HasContext(ModelCallsOf(Main)[2].messages[1])
    /\ Len(ModelCallsOf(Main)[2].messages) > Len(session_state.messages) + 1


\* C26: the backend creates at most one booking for the requests of one
\* create_booking call, also when it processed a POST whose answer was lost
\* or was a 5xx: no retry and no fallback submits the creation again.
C26_AtMostOneBookingPerCall ==
    \A t \in Threads : call[t].op = "create_booking" => created[t] <= 1


\* the payload create_booking will build for the replacement booking of the
\* reschedule frame f
ReplacementPayload(f) ==
    BookingPayload(CreateBookingFrame(f.event_type_id, f.new_start_time, f.attendee_email,
                                      f.attendee_name,
                                      Or(f.reason, PyStr(<<"Rescheduled meeting">>))))

\* C27: in the fallback of reschedule_booking the original booking is
\* cancelled only when the payload of the replacement (the original's
\* eventTypeId, its first attendee's name and e-mail, and new_start_time)
\* passes validate_booking_payload.
C27_CancelOnlyWithValidReplacement ==
    \A t \in Threads :
        (/\ AtPc(t, "reschedule_booking", "cancelled")
         /\ IsSuccess(Top(t).ret))
        => Get(validate_booking_payload(ReplacementPayload(Top(t))), "valid").v


\* C28: the cancel-then-create fallback of reschedule_booking, once the
\* cancellation has succeeded, returns success=true exactly when the
\* backend accepted the new booking with a 2xx answer, whatever the body of
\* that answer: it never returns success=false after both steps took
\* effect.
C28_FallbackSucceedsWhenBothTookEffect ==
    [][\A t \in Threads :
          (/\ AtPc(t, "reschedule_booking", "created")
           /\ Returning(t))
          => (IsSuccess(ReturnValue(t)) <=> created[t] >= 1)]_vars


\* the current call of t is a cancel_booking or reschedule_booking that was
\* given neither booking_uid nor booking_id
NeitherGiven(t) ==
    /\ call[t].op \in {"cancel_booking", "reschedule_booking"}
    /\ ~Truthy(call[t].booking_uid)
    /\ ~Truthy(call[t].booking_id)
\* in this step the top frame of t is inside _make_request_with_retry
RequestStep(t) ==
    /\ stack[t] # <<>>
    /\ Top(t).pc \in RequestPcs
    /\ stack'[t] # stack[t]

\* C29: a cancel_booking or reschedule_booking call given neither
\* booking_uid nor booking_id makes no request and returns a failure.
C29_NoRequestWithoutIdentifier ==
    [][\A t \in Threads :
          NeitherGiven(t)
          => /\ ~RequestStep(t)
             /\ (Returning(t) /\ Len(stack[t]) = 1) => IsFailure(returned'[t])]_vars


\* the operations that change the bookings of the backend
MutationOps == {"cancel_booking", "create_booking", "reschedule_booking"}
\* the cache would answer the first request of frame f now
ServedFromCache(f) ==
    CacheHit(RequestOf(f).method,
             <<RequestOf(f).method, RequestOf(f).url, RequestOf(f).params>>,
             request_cache, clock)

\* C30: when get_bookings is called next after a cancel_booking,
\* create_booking or reschedule_booking that returned success, its request
\* is not answered from the cache: the list it returns was fetched after
\* the mutation.
C30_FreshBookingsAfterMutation ==
    [][\A t \in Threads :
          (/\ stack[t] = <<>>
           /\ call[t].op \in MutationOps
           /\ IsSuccess(returned[t])
           /\ stack'[t] # <<>>
           /\ stack'[t][1].op = "get_bookings")
          => ~ServedFromCache(stack'[t][1])]_vars


\* the key the cache files the first request of frame f under
CacheKeyOf(f) == <<RequestOf(f).method, RequestOf(f).url, RequestOf(f).params>>

\* the cache answers the request of frame f at time now
ServedAt(f, now) == CacheHit(RequestOf(f).method, CacheKeyOf(f), request_cache, now)

\* C30 (amended): get_bookings may be answered from the cache, also right
\* after a mutation, but only by an entry stored less than CacheTTL seconds
\* before: the answer then is that entry's response.  When there is no such
\* entry the request goes out, and a 2xx answer to it is filed in the cache
\* at the time it arrives.
C30_StaleBookingsBoundedByTTL ==
    [][\A t \in Threads :
          (/\ stack[t] # <<>>
           /\ Top(t).op = "get_bookings"
           /\ Top(t).pc = "v2"
           /\ stack'[t] # stack[t])
          => LET key == CacheKeyOf(Top(t))
                 r == stack'[t][Len(stack'[t])].r
             IN  IF Top(t).r.kind = "sent"
                 THEN (r.kind = "return" /\ r.response.status_code < 400)
                      => /\ key \in DOMAIN request_cache'
                         /\ request_cache'[key].timestamp = clock'
                         /\ request_cache'[key].response = r.response
                 ELSE IF ServedAt(Top(t), clock')
                 THEN /\ clock' - request_cache[key].timestamp < CacheTTL
                      /\ MovingTo(t, "v2_response")
                      /\ r.kind = "return"
                      /\ r.response = request_cache[key].response
                      /\ request_cache' = request_cache
                 ELSE MovingTo(t, "v2") /\ r.kind = "sent"]_vars

\* the second call of a thread, made at the time of its first, is a
\* get_bookings call that holds the list the cache kept from the first
\* call, a cancel_booking by booking_id that fetched the booking
C30_Witness ==
    /\ calls = 2
    /\ \A t \in Threads \ {Main} : call[t] = NoCall
    /\ clock = 0
    /\ Len(stack[Main]) = 1
    /\ AtPc(Main, "get_bookings", "v2_response")
    /\ call[Main].op = "get_bookings"
    /\ <<"GET", BookingUrl(V2, PyStr(<<"1", "1">>)), <<>>>> \in DOMAIN request_cache
    /\ CacheKeyOf([Top(Main) EXCEPT !.pc = "v2"]) \in DOMAIN request_cache
    /\ Top(Main).r.kind = "return"
    /\ Top(Main).r.response = request_cache[CacheKeyOf([Top(Main) EXCEPT !.pc = "v2"])].response


\* the event type has no title to match a reason with: title and name are
\* empty or missing
Untitled(et) == ~Truthy(Or(Get(et, "title"), Get(et, "name")))
\* the event types of the list that have the id
WithId(event_types, id) == {i \in DOMAIN event_types : Get(event_types[i], "id") = id}

\* C31: when a create_booking dispatch with a non-empty meeting_reason
\* books an event type picked from the fetched list, and that event type
\* has an empty or missing title (and name), then its slug equals the
\* reason (lower case, stripped).
C31_EmptyTitleNeverMatches ==
    [][\A t \in Threads :
          (/\ MatchingReason(t)
           /\ Truthy(Get(Top(t).arguments, "meeting_reason"))
           /\ Calling(t, "create_booking"))
          => LET event_types == Get(Top(t).ret, "event_types").v
                 reason == Strip(Lower(Get(Top(t).arguments, "meeting_reason")))
             IN  \A i \in WithId(event_types, stack'[t][Len(stack'[t])].event_type_id) :
                    Untitled(event_types[i])
                    => Strip(Lower(Or(Get(event_types[i], "slug"), PyStr(<<>>)))) = reason]_vars


\* the top frame of t is reschedule_booking, in its cancel-then-create fallback
InFallback(t) ==
    /\ stack[t] # <<>>
    /\ Top(t).op = "reschedule_booking"
    /\ Top(t).pc \in {"lookup", "cancelled", "created"}
\* get_bookings returned a list that holds the booking of the token, and the
\* booking has at least one attendee
FoundWithAttendee(booking_resp, path_token) ==
    /\ IsSuccess(booking_resp)
    /\ IsList(Get(booking_resp, "bookings"))
    /\ LET original_booking == FindOriginal(Get(booking_resp, "bookings").v, path_token)
       IN  /\ IsDict(original_booking)
           /\ IsList(Get(original_booking, "attendees"))
           /\ Len(Get(original_booking, "attendees").v) >= 1

\* C32: in the fallback of reschedule_booking, cancel_booking is called
\* only when the lookup found the original booking with an attendee, and
\* create_booking only when the cancellation returned success; a failed
\* lookup and a failed cancellation end the fallback with a failure and
\* without a further call.
C32_FallbackStepsInOrder ==
    [][\A t \in Threads :
          InFallback(t)
          => /\ Calling(t, "cancel_booking")
                => /\ Top(t).pc = "lookup"
                   /\ FoundWithAttendee(Top(t).ret, Top(t).path_token)
             /\ Calling(t, "create_booking")
                => /\ Top(t).pc = "cancelled"
                   /\ IsSuccess(Top(t).ret)
             /\ (Top(t).pc = "lookup" /\ ~FoundWithAttendee(Top(t).ret, Top(t).path_token))
                => Returning(t) /\ IsFailure(ReturnValue(t))
             /\ (Top(t).pc = "cancelled" /\ ~IsSuccess(Top(t).ret))
                => Returning(t) /\ IsFailure(ReturnValue(t))]_vars

\* the fallback found the booking u11, cancelled it, and its create_booking
\* has sent the request of the new booking
C32_Witness ==
    /\ Len(stack[Main]) = 2
    /\ stack[Main][1].op = "reschedule_booking"
    /\ stack[Main][1].pc = "created"
    /\ stack[Main][1].path_token = Uid11
    /\ IsSuccess(stack[Main][1].ret)
    /\ AtPc(Main, "create_booking", "v2_response")


\* the top frame of t is _resolve_booking_uid
Resolving(t) == stack[t] # <<>> /\ Top(t).op = "_resolve_booking_uid"
\* the direct fetch of the top frame of t was answered with a UID
FetchYields(t) ==
    /\ Top(t).r.kind = "return"
    /\ Top(t).r.response.status_code < 400
    /\ IsDict(Top(t).r.response.body)
    /\ LET data == Top(t).r.response.body
           node == GetD(data, "data", data)
       IN  IsDict(node) /\ (Truthy(Get(node, "uid")) \/ Truthy(Get(node, "bookingUid")))
\* some listed booking has the id, and a UID
ScanYields(t) ==
    /\ IsDict(Top(t).ret)
    /\ \E i \in DOMAIN GetD(Top(t).ret, "bookings", PyList(<<>>)).v :
          LET b == Get(Top(t).ret, "bookings").v[i]
          IN  StrOf(Get(b, "id")) = StrOf(Top(t).booking_id) /\ Truthy(Get(b, "uid"))

\* C33: _resolve_booking_uid returns a supplied booking_uid at once; given
\* only a booking_id it requests the booking of v2, then of v1, then calls
\* get_bookings, going on to the next step only when the step yields no
\* UID and returning the UID of the first step that yields one, or None
\* after the third; cancel_booking sends its v2 request with the resolved
\* UID in the path when there is one, and with the raw id or uid otherwise.
C33_ResolutionOrder ==
    [][\A t \in Threads :
          /\ Resolving(t)
             => /\ (Top(t).pc = "entry" /\ Truthy(Top(t).booking_uid))
                   => Returning(t) /\ ReturnValue(t) = StrOf(Top(t).booking_uid)
                /\ (Top(t).pc = "entry" /\ ~Truthy(Top(t).booking_uid) /\ Truthy(Top(t).booking_id))
                   => MovingTo(t, "v2")
                /\ Top(t).pc = "v2"
                   => /\ InRequest(t, "v2")
                      /\ stack'[t][Len(stack[t])].r.kind = "return"
                         => stack'[t][Len(stack[t])].r.response.url
                               = BookingUrl(V2, StrOf(Top(t).booking_id))
                /\ Top(t).pc = "v2_response"
                   => IF FetchYields(t)
                      THEN Returning(t) /\ Truthy(ReturnValue(t))
                      ELSE MovingTo(t, "v1")
                /\ Top(t).pc = "v1"
                   => /\ InRequest(t, "v1")
                      /\ stack'[t][Len(stack[t])].r.kind = "return"
                         => stack'[t][Len(stack[t])].r.response.url
                               = BookingUrl(V1, StrOf(Top(t).booking_id))
                /\ Top(t).pc = "v1_response"
                   => IF FetchYields(t)
                      THEN Returning(t) /\ Truthy(ReturnValue(t))
                      ELSE MovingTo(t, "scan")
                /\ Top(t).pc = "scan" => Calling(t, "get_bookings")
                /\ Top(t).pc = "scanned"
                   => /\ Returning(t)
                      /\ IF ScanYields(t) THEN Truthy(ReturnValue(t)) ELSE ReturnValue(t) = None
          /\ (AtPc(t, "cancel_booking", "v2") /\ MovingTo(t, "v2_response")
              /\ stack'[t][Len(stack[t])].r.kind = "return")
             => stack'[t][Len(stack[t])].r.response.url
                   = CancelUrlV2(IF Truthy(Top(t).ret) THEN Top(t).ret
                                 ELSE IF Truthy(Top(t).booking_uid) THEN Top(t).booking_uid
                                 ELSE Top(t).booking_id)]_vars

\* cancel_booking of the booking id 11 has sent its v2 request for the UID
\* u11, which the scan yielded after both direct fetches were answered
\* without one
C33_Witness ==
    /\ Len(stack[Main]) = 1
    /\ AtPc(Main, "cancel_booking", "v2_response")
    /\ ~Truthy(Top(Main).booking_uid)
    /\ Top(Main).booking_id = BookingId11
    /\ Top(Main).ret = Uid11
    /\ Top(Main).r.kind = "return"
    /\ Top(Main).r.response.url = CancelUrlV2(Uid11)
    /\ \A api \in {<<V2, <<>>>>, <<V1, <<"apiKey=">>>>} :
          LET key == <<"GET", BookingUrl(api[1], BookingId11), api[2]>>
          IN  /\ key \in DOMAIN request_cache
              /\ request_cache[key].response.body = NotJson




\* the steps a call of _make_request_with_retry allowed m attempts can still
\* take before its caller has what it returned or raised: the request of a
\* pass going out, and the pass ending or going to sleep
StepsInRequest(r, m) ==
    IF r.kind = "sent" THEN 2 * (m - r.attempt) - 1
    ELSE IF r.kind = "sleep" THEN 2 * (m - r.attempt)
    ELSE 2 * m
\* the steps left to a frame that makes a v2 request and a v1 request of at
\* most m attempts each, reads the answer of each in one step, and has
\* `after` steps to take after them
StepsOfRequests(f, m, after) ==
    CASE f.pc = "v2" -> after + 2 + 2 * m + StepsInRequest(f.r, m)
      [] f.pc = "v2_response" -> after + 2 + 2 * m
      [] f.pc = "v1" -> after + 1 + StepsInRequest(f.r, m)
      [] f.pc = "v1_response" -> after + 1
\* the same of a frame that has not begun
StepsOfOperation(m, after) == after + 2 + 4 * m
StepsOfResolve == StepsOfOperation(ReadRetries, StepsOfOperation(ReadRetries, 0) + 2) + 1
StepsOfCancel == StepsOfOperation(ReadRetries, 0) + StepsOfResolve + 1
StepsOfCreate == StepsOfOperation(CreateRetries, 2) + 4
\* the steps a frame of the adapter can still take before it returns, its
\* calls of other operations included
StepsLeft(f) ==
    CASE f.op \in {"get_event_types", "get_available_slots", "get_bookings"} ->
            StepsOfRequests(f, ReadRetries, 0)
      [] f.op = "create_booking" ->
            (CASE f.pc = "check" -> StepsOfCreate [] f.pc = "init" -> StepsOfCreate - 1
               [] f.pc = "add" -> StepsOfCreate - 2 [] f.pc = "validate" -> StepsOfCreate - 3
               [] f.pc = "release" -> 2 [] f.pc = "remove" -> 1
               [] OTHER -> StepsOfRequests(f, CreateRetries, 2))
      [] f.op = "_resolve_booking_uid" ->
            (CASE f.pc = "entry" -> StepsOfResolve
               [] f.pc = "scan" -> StepsOfOperation(ReadRetries, 0) + 2
               [] f.pc = "scanned" -> 1
               [] OTHER -> StepsOfRequests(f, ReadRetries, StepsOfOperation(ReadRetries, 0) + 2))
      [] f.op = "cancel_booking" ->
            (CASE f.pc = "entry" -> StepsOfCancel
               [] OTHER -> StepsOfRequests(f, ReadRetries, 0))
      [] f.op = "reschedule_booking" ->
            LET cancelled == StepsOfCreate + 2
                lookup == cancelled + StepsOfCancel + 1
                fallback == lookup + StepsOfOperation(ReadRetries, 0) + 1
            IN  (CASE f.pc = "entry" -> fallback + 2 + 2 * ReadRetries + StepsOfResolve
                   [] f.pc = "v2" -> fallback + 1 + StepsInRequest(f.r, ReadRetries)
                   [] f.pc = "v2_response" -> fallback + 1
                   [] f.pc = "fallback" -> fallback [] f.pc = "lookup" -> lookup
                   [] f.pc = "cancelled" -> cancelled [] f.pc = "created" -> 1)
      [] f.op = "diagnose_slots_issue" ->
            LET each == 1 + 2 * DiagnoseRetries IN
            (CASE f.pc = "entry" -> 3 * each + StepsOfOperation(ReadRetries, 0) + 2
               [] f.pc = "types" -> 3 * each + 1
               [] f.pc = "simple" -> 2 * each + 1 + StepsInRequest(f.r, DiagnoseRetries)
               [] f.pc = "simple_response" -> 2 * each + 1
               [] f.pc = "iso" -> each + 1 + StepsInRequest(f.r, DiagnoseRetries)
               [] f.pc = "iso_response" -> each + 1
               [] f.pc = "v1" -> 1 + StepsInRequest(f.r, DiagnoseRetries)
               [] f.pc = "v1_response" -> 1)
      [] f.op = "_make_request_with_retry" ->
            IF f.pc = "request" THEN 1 + StepsInRequest(f.r, f.max_retries) ELSE 1
RECURSIVE StepsOfStack(_)
StepsOfStack(s) == IF s = <<>> THEN 0 ELSE StepsLeft(Head(s)) + StepsOfStack(Tail(s))

\* the steps the longest operation, reschedule_booking, can take: each pass
\* of a request counts two steps (the request going out, its answer)
MostSteps == StepsLeft(RescheduleFrame(Uid11, None, Iso2, PyStr(<<>>)))

\* C34: a call of _make_request_with_retry makes at most max_retries
\* requests; when it makes max_retries requests, it returns the response of
\* the last if that is a 5xx response and raises if the last met a transport
\* exception.  Each step of an operation of the adapter is at most one
\* request and brings the operation nearer to its return: StepsLeft bounds
\* the steps left to every frame, and no operation takes more than
\* MostSteps steps.
C34_BoundedRequests ==
    /\ [](\A t \in Threads :
            Requested(t)
            => LET n == returned[t].requests
                   met == returned[t].met
               IN  /\ n <= call[t].max_retries
                   /\ (n = call[t].max_retries /\ met[n].kind = "resp"
                       /\ met[n].status >= 500)
                      => /\ returned[t].kind = "return"
                         /\ returned[t].response = ResponseOf(met[n], call[t].url)
                   /\ (n = call[t].max_retries /\ met[n].kind = "exc")
                      => returned[t].kind = "raise")
    /\ [][\A t \in Threads :
            (stack[t] # <<>> /\ stack'[t] # stack[t])
            => /\ StepsOfStack(stack'[t]) < StepsOfStack(stack[t])
               /\ StepsOfStack(stack[t]) <= MostSteps]_vars

\* after a direct GET has stored its answer in the cache, a POST allowed
\* three attempts met a transport error and two 500 responses, and returned
\* the last of them three seconds after it began
C34_Witness ==
    /\ calls = 2
    /\ stack[Main] = <<>>
    /\ Requested(Main)
    /\ call[Main].method = "POST"
    /\ call[Main].max_retries = 3
    /\ DOMAIN call[Main].cache # {}
    /\ returned[Main].met[1].kind = "exc"
    /\ returned[Main].requests = 3
    /\ returned[Main].kind = "return"
    /\ returned[Main].response.status_code = 500
    /\ clock = call[Main].clock + 3


EventTypeTools == {"get_available_slots", "create_booking", "create_booking_manual"}
\* the top frame of t is the dispatch of a tool that needs an event type,
\* at its first line
PickingEventType(t) ==
    /\ AtPc(t, "execute_function", "entry")
    /\ Top(t).function_name \in EventTypeTools
\* in this step the top frame of t calls an operation of the adapter with
\* the event type id
CallingWith(t, id) ==
    /\ Calling(t, "get_available_slots") \/ Calling(t, "create_booking")
    /\ stack'[t][Len(stack'[t])].event_type_id = id

\* C35: the dispatch of get_available_slots, create_booking and
\* create_booking_manual fetches the event types exactly when it has neither
\* an event_type_id argument nor an id entered in the sidebar; otherwise
\* every call of the adapter it makes carries the argument when there is
\* one, and the id of the sidebar when there is none.
C35_ExplicitThenManualThenFetched ==
    [][\A t \in Threads :
          PickingEventType(t)
          => LET explicit == Get(Top(t).arguments, "event_type_id")
                 manual_event_id == session_state.manual_event_id
             IN  /\ Calling(t, "get_event_types")
                    <=> (~Truthy(explicit) /\ ~Truthy(manual_event_id))
                 /\ (/\ Truthy(explicit)
                     /\ Calling(t, "get_available_slots") \/ Calling(t, "create_booking"))
                    => CallingWith(t, explicit)
                 /\ (/\ ~Truthy(explicit)
                     /\ Truthy(manual_event_id)
                     /\ Calling(t, "get_available_slots") \/ Calling(t, "create_booking"))
                    => CallingWith(t, manual_event_id)]_vars

\* with the id 9 entered in the sidebar, the dispatch of create_booking with
\* the argument event_type_id 6 has called the adapter's create_booking
\* with the id 6
C35_Witness ==
    /\ session_state.manual_event_id = Nine
    /\ Len(stack[Main]) = 2
    /\ stack[Main][1].op = "execute_function"
    /\ stack[Main][1].function_name = "create_booking"
    /\ Get(stack[Main][1].arguments, "event_type_id") = Six
    /\ stack[Main][2].op = "create_booking"
    /\ stack[Main][2].event_type_id = Six


\* the frames of chat_with_assistant of thread t
ChatFramesOf(t) == {i \in DOMAIN stack[t] : stack[t][i].op = "chat_with_assistant"}
\* the transcript of the frame is the one it was called with, or that
\* followed by an assistant message with the tool call and a tool message
AsPassed(f) == f.messages = session_state.messages
WithBothAppended(f) ==
    /\ Len(f.messages) = Len(session_state.messages) + 2
    /\ SubSeq(f.messages, 1, Len(session_state.messages)) = session_state.messages
    /\ Get(f.messages[Len(f.messages) - 1], "role") = PyStr(<<"assistant">>)
    /\ Has(f.messages[Len(f.messages) - 1], "tool_calls")
    /\ Get(f.messages[Len(f.messages)], "role") = PyStr(<<"tool">>)

\* C36: until execute_function has returned a result, the transcript of a
\* chat_with_assistant turn is the one passed in, and so it is when the
\* turn ends with the exception of json.loads or of execute_function; the
\* assistant tool-call message and the tool message are appended together,
\* when the dispatch has returned.
C36_NothingAppendedBeforeDispatchReturns ==
    /\ [](\A t \in Threads : \A i \in ChatFramesOf(t) :
            IF stack[t][i].pc = "second_response" THEN WithBothAppended(stack[t][i])
            ELSE AsPassed(stack[t][i]))
    /\ [][\A t \in Threads :
            (/\ stack[t] # <<>>
             /\ Top(t).op = "chat_with_assistant"
             /\ Top(t).pc \in {"first_response", "executed"}
             /\ Returning(t)
             /\ IsRaise(ReturnValue(t)))
            => /\ AsPassed(Top(t))
               /\ session_state' = session_state]_vars

\* a turn has ended with the KeyError that execute_function raised for a
\* create_booking tool call without start_time, and the transcript ends
\* with the user's prompt
C36_Witness ==
    /\ AtPc(Main, "main", "replied")
    /\ Top(Main).ret = Raise("KeyError")
    /\ Get(session_state.messages[Len(session_state.messages)], "role") = PyStr(<<"user">>)

\* the dicts the search of a link reads: the booking and the dicts it holds
LinkPlaces(b) == {b} \cup {b.v[k] : k \in {x \in DOMAIN b.v : IsDict(b.v[x])}}

\* the returned link out of b is null, or a text beginning with http that
\* one of the places holds under a key whose lowered name is in named
LinkOnlyFrom(b, out, named) ==
    /\ out \in DOMAIN b.v
    /\ \/ b.v[out] = None
       \/ /\ IsStr(b.v[out])
          /\ b.v[out].v # <<>>
          /\ b.v[out].v[1] \in {"http://", "https://"}
          /\ \E d \in LinkPlaces(b) : \E k \in DOMAIN d.v \ {out} :
               /\ LowerKey(k) \in named
               /\ d.v[k] = b.v[out]

\* the bookings a finished get_bookings call of t returned
ReturnedBookings(t) ==
    IF stack[t] = <<>> /\ call[t].op = "get_bookings" /\ IsSuccess(returned[t])
    THEN {Get(returned[t], "bookings").v[i] : i \in DOMAIN Get(returned[t], "bookings").v}
    ELSE {}

\* C37: in every booking get_bookings returns, reschedule_url is null or an
\* http text stored in the booking under a key named, in any case,
\* rescheduleUrl, rescheduleLink or reschedule, and cancel_url is null or an
\* http text stored under cancelUrl, cancelLink or cancel; neither is ever
\* taken from another key.
C37_LinksOnlyFromNamedKeys ==
    \A t \in Threads : \A b \in ReturnedBookings(t) :
        /\ LinkOnlyFrom(b, "reschedule_url", {"rescheduleurl", "reschedulelink", "reschedule"})
        /\ LinkOnlyFrom(b, "cancel_url", {"cancelurl", "cancellink", "cancel"})

\* a returned booking took both links from its links container although it
\* holds another URL at the top level, and a booking that holds URLs only
\* under other keys got null for both
C37_Witness ==
    \E a, b \in ReturnedBookings(Main) :
        /\ Get(a, "someUrl") = Http("s")
        /\ Get(a, "reschedule_url") = Http("r")
        /\ Get(a, "cancel_url") = Http("c")
        /\ Get(b, "manageLink") = Http("m")
        /\ Get(b, "bookingUrl") = Http("b")
        /\ "reschedule_url" \in DOMAIN b.v /\ Get(b, "reschedule_url") = None
        /\ "cancel_url" \in DOMAIN b.v /\ Get(b, "cancel_url") = None

====
